---------------------------- MODULE Spec2Model ----------------------------
(***************************************************************************)
(* A model of the reconciliation core of external-dns and of three of its  *)
(* provider adapters (Azure Private DNS, CoreDNS/etcd, PowerDNS).          *)
(*                                                                         *)
(* Strings whose inner structure matters (DNS names, zone names, etcd      *)
(* keys, targets) are sequences of chunks: a chunk is a run of characters  *)
(* that holds no separator, and the separators "." and "/" are chunks of   *)
(* their own.  "foo.example.com" is <<"foo", ".", "example", ".", "com">>  *)
(* and "fooexample.com" is <<"foo", "example", ".", "com">>, so a raw      *)
(* string suffix and a suffix at a label boundary are different things.    *)
(***************************************************************************)
EXTENDS Integers, Sequences, FiniteSets, TLC

(***************************************************************************)
(* Strings                                                                 *)
(***************************************************************************)
Dot == "."
Slash == "/"

\* strings.HasSuffix
HasSuffix(s, t) ==
    /\ Len(t) <= Len(s)
    /\ SubSeq(s, Len(s) - Len(t) + 1, Len(s)) = t

\* strings.HasPrefix
HasPrefix(s, t) ==
    /\ Len(t) <= Len(s)
    /\ SubSeq(s, 1, Len(t)) = t

\* strings.TrimSuffix(s, ".")
TrimSuffixDot(s) ==
    IF HasSuffix(s, <<Dot>>) THEN SubSeq(s, 1, Len(s) - 1) ELSE s

\* strings.Split(s, sep): the pieces between the separators
RECURSIVE SplitAcc(_, _, _)
SplitAcc(s, sep, cur) ==
    IF s = <<>> THEN <<cur>>
    ELSE IF Head(s) = sep THEN <<cur>> \o SplitAcc(Tail(s), sep, <<>>)
    ELSE SplitAcc(Tail(s), sep, Append(cur, Head(s)))

Split(s, sep) == SplitAcc(s, sep, <<>>)

\* strings.Join(parts, sep)
RECURSIVE Join(_, _)
Join(parts, sep) ==
    IF parts = <<>> THEN <<>>
    ELSE IF Len(parts) = 1 THEN parts[1]
    ELSE parts[1] \o <<sep>> \o Join(Tail(parts), sep)

\* strings.Count(s, sep)
RECURSIVE Count(_, _)
Count(s, sep) ==
    IF s = <<>> THEN 0
    ELSE (IF Head(s) = sep THEN 1 ELSE 0) + Count(Tail(s), sep)

Reverse(s) == [i \in 1..Len(s) |-> s[Len(s) - i + 1]]

Range(s) == {s[i] : i \in 1..Len(s)}

\* The member of a set of one member.  Only({F(v) : v \in {e}}) is F(e) with
\* e evaluated once, whatever the number of places where F uses it.
Only(S) == CHOOSE x \in S : TRUE

\* The members of a sequence that satisfy a test, in order.
RECURSIVE SelectFrom(_, _, _)
SelectFrom(s, keep, i) ==
    IF i > Len(s) THEN <<>>
    ELSE (IF i \in keep THEN <<s[i]>> ELSE <<>>) \o SelectFrom(s, keep, i + 1)

SelectIdx(s, keep, i) == Only({SelectFrom(ss, kk, i) : ss \in {s}, kk \in {keep}})

\* The number of characters of a chunk, and of a string (Go's len).
CharLen(c) ==
    CASE c = "foo" -> 3
      [] c = "bar" -> 3
      [] c = "com" -> 3
      [] c = "org" -> 3
      [] c = "example" -> 7
      [] c = "other" -> 5
      [] OTHER -> 1

RECURSIVE StrLen(_)
StrLen(s) == IF s = <<>> THEN 0 ELSE CharLen(Head(s)) + StrLen(Tail(s))


(***************************************************************************)
(* Endpoint model (spec section 3)                                         *)
(***************************************************************************)
example_com == <<"example", Dot, "com">>
foo_example_com == <<"foo", Dot, "example", Dot, "com">>
bar_example_com == <<"bar", Dot, "example", Dot, "com">>
fooexample_com == <<"foo", "example", Dot, "com">>
other_org == <<"other", Dot, "org">>
foo_other_org == <<"foo", Dot, "other", Dot, "org">>

IP1 == <<"1.1.1.1">>
IP2 == <<"2.2.2.2">>
Host1 == <<"h1", Dot, "org">>
Host2 == <<"h2", Dot, "org">>

\* A fixed total order of the targets the model uses: sorting follows it.
TargetOrder ==
    <<IP1, IP2, Host1, Host1 \o <<Dot>>, Host2, Host2 \o <<Dot>>,
      <<"tag">>, <<"tag2">>>>

SortTargets(S) ==
    SelectIdx(TargetOrder, {i \in 1..Len(TargetOrder) : TargetOrder[i] \in S}, 1)

NoLabels == [l \in {} |-> <<>>]

\* endpoint.Endpoint
Endpoint(name, type, setid, ttl, targets, labels) ==
    [DNSName |-> name, RecordType |-> type, SetIdentifier |-> setid,
     RecordTTL |-> ttl, Targets |-> targets, Labels |-> labels]

\* The key of spec section 4.3: (DNSName, RecordType, SetIdentifier)
Key(e) == <<e.DNSName, e.RecordType, e.SetIdentifier>>

Keys(eps) == {Key(eps[i]) : i \in 1..Len(eps)}

\* Endpoint.CheckEndpoint as far as the spec states it: a CNAME has exactly
\* one target, and every endpoint has a target.
CheckEndpoint(e) ==
    /\ Len(e.Targets) >= 1
    /\ e.RecordType = "CNAME" => Len(e.Targets) = 1

(***************************************************************************)
(* Plan (spec section 4.3)                                                 *)
(***************************************************************************)
\* Mutant: the last non-empty TTL wins.
MergeIntoLastTTL(acc, e) ==
    IF \E j \in 1..Len(acc) : Key(acc[j]) = Key(e)
    THEN [j \in 1..Len(acc) |->
            IF Key(acc[j]) = Key(e)
            THEN [acc[j] EXCEPT
                    !.Targets = SortTargets(Range(acc[j].Targets) \cup Range(e.Targets)),
                    !.RecordTTL = IF e.RecordTTL # 0 THEN e.RecordTTL
                                  ELSE acc[j].RecordTTL]
            ELSE acc[j]]
    ELSE Append(acc, [e EXCEPT !.Targets = SortTargets(Range(e.Targets))])

\* Consolidation of raw endpoints that share a key: the union of the targets
\* and the first non-empty TTL in input order.
MergeInto(acc, e) ==
    IF \E j \in 1..Len(acc) : Key(acc[j]) = Key(e)
    THEN [j \in 1..Len(acc) |->
            IF Key(acc[j]) = Key(e)
            THEN [acc[j] EXCEPT
                    !.Targets = SortTargets(Range(acc[j].Targets) \cup Range(e.Targets)),
                    !.RecordTTL = IF acc[j].RecordTTL # 0 THEN acc[j].RecordTTL
                                  ELSE e.RecordTTL]
            ELSE acc[j]]
    ELSE Append(acc, [e EXCEPT !.Targets = SortTargets(Range(e.Targets))])

RECURSIVE ConsolidateAcc(_, _)
ConsolidateAcc(eps, acc) ==
    IF eps = <<>> THEN acc
    ELSE Only({ConsolidateAcc(Tail(eps), next) : next \in {MergeInto(acc, Head(eps))}})

Consolidate(eps) == ConsolidateAcc(eps, <<>>)

\* The entry of a keyed list for a key (the list holds one entry per key).
Lookup(eps, k) == eps[CHOOSE i \in 1..Len(eps) : Key(eps[i]) = k]

\* Step 4: what makes an entry present on both sides an Update.
SameTargets(a, b) == Range(a.Targets) = Range(b.Targets)

\* Mutant: a change of the TTL alone goes unnoticed.
NeedsUpdateTargetsOnly(cur, des) == ~SameTargets(cur, des)

NeedsUpdate(cur, des) ==
    \/ ~SameTargets(cur, des)
    \/ cur.RecordTTL # des.RecordTTL

\* New inherits the labels of the current entry by copy; its own labels win.
InheritLabels(cur, des) ==
    [des EXCEPT !.Labels =
        [l \in (DOMAIN cur.Labels) \cup (DOMAIN des.Labels) |->
            IF l \in DOMAIN des.Labels THEN des.Labels[l] ELSE cur.Labels[l]]]

EmptyChanges == [Create |-> <<>>, Update |-> <<>>, Delete |-> <<>>]

\* plan.Changes.UpdateOld / UpdateNew
UpdateOld(ch) == [i \in 1..Len(ch.Update) |-> ch.Update[i].Old]
UpdateNew(ch) == [i \in 1..Len(ch.Update) |-> ch.Update[i].New]

\* Step 2: a key of desired that current lacks is created.
CreateOf(cur, valid) ==
    SelectIdx(valid, {i \in 1..Len(valid) : Key(valid[i]) \notin Keys(cur)}, 1)

\* Mutant: whatever is not created anew is deleted first.
DeleteOfAll(cur, merged) == cur

\* Step 3: a key of current that desired lacks is deleted.  A desired entry
\* dropped as invalid still counts as desired: the drop deletes nothing.
DeleteOf(cur, merged) ==
    SelectIdx(cur, {i \in 1..Len(cur) : Key(cur[i]) \notin Keys(merged)}, 1)

\* Step 4: a key of both is updated when its entries differ.
UpdateOf(cur, valid) ==
    LET changed == SelectIdx(valid,
                      {i \in 1..Len(valid) :
                          /\ Key(valid[i]) \in Keys(cur)
                          /\ NeedsUpdate(Lookup(cur, Key(valid[i])), valid[i])}, 1)
    IN [i \in 1..Len(changed) |->
          [Old |-> Lookup(cur, Key(changed[i])),
           New |-> InheritLabels(Lookup(cur, Key(changed[i])), changed[i])]]

\* The desired entries the Plan works with: consolidated, the invalid dropped.
ValidDesired(merged) ==
    SelectIdx(merged, {i \in 1..Len(merged) : CheckEndpoint(merged[i])}, 1)

Plan(cur, des) ==
    Only({Only({[Create |-> CreateOf(cur, valid),
                 Update |-> UpdateOf(cur, valid),
                 Delete |-> DeleteOf(cur, merged)] : valid \in {ValidDesired(merged)}}) :
            merged \in {Consolidate(des)}})

(***************************************************************************)
(* Ownership registry (spec section 4.1)                                   *)
(***************************************************************************)
OwnerID == "me"                 \* the configured owner identifier
OwnerLabelKey == "owner"
TxtPrefix == <<"txt-">>         \* the marker of name n is the TXT record txt-n

\* The content of the marker that names owner o.
MarkerText(o) == <<"heritage=external-dns", ",", "external-dns/owner=", o>>

\* Parsing of a marker: the owner it names, or "" for malformed content.
ParseMarker(text) ==
    IF /\ Len(text) = 4
       /\ text[1] = "heritage=external-dns"
       /\ text[2] = ","
       /\ text[3] = "external-dns/owner="
    THEN text[4]
    ELSE ""

IsMarker(e) == e.RecordType = "TXT" /\ HasPrefix(e.DNSName, TxtPrefix)

\* The owner an observed list names for endpoint e: "" without a marker or
\* with a malformed one.
ResolveOwner(obs, e) ==
    LET ms == {i \in 1..Len(obs) :
                  /\ IsMarker(obs[i])
                  /\ obs[i].DNSName = TxtPrefix \o e.DNSName}
    IN IF ms = {} THEN ""
       ELSE ParseMarker(obs[CHOOSE i \in ms : \A j \in ms : i <= j].Targets[1])

\* Mutant: the registry hands every record to the Plan as its own.
OwnedAll(e) == TRUE

\* The registry's conflict policy: only a record of the configured owner may
\* be modified.
Owned(e) == e.Labels[OwnerLabelKey] = OwnerID

\* Registry.Records: the endpoints with the owner label resolved, markers
\* taken out, records of other owners and unowned records excluded.
RegistryRecords(obs) ==
    LET labelled == [i \in 1..Len(obs) |->
                        [obs[i] EXCEPT !.Labels =
                            [l \in {OwnerLabelKey} |-> ResolveOwner(obs, obs[i])]]]
    IN SelectIdx(labelled,
                 {i \in 1..Len(obs) : ~IsMarker(obs[i]) /\ Owned(labelled[i])}, 1)

(***************************************************************************)
(* Domain and zone filters (spec section 4.2)                              *)
(***************************************************************************)
\* f is name itself or a suffix of name that starts at a label boundary
LabelSuffix(name, f) == name = f \/ HasSuffix(name, <<Dot>> \o f)

\* endpoint.DomainFilter.Match: a filter is the set of its domains, and an
\* unconfigured filter matches every name; a trailing dot of the name does
\* not count.
DomainFilterMatch(filters, name) ==
    filters = {} \/ \E f \in filters : LabelSuffix(TrimSuffixDot(name), f)

\* endpoint.DomainFilter.Match of a filter with exclusions: a name under an
\* excluded domain does not match, whatever the domains of the filter.
DomainFilterMatchExcluding(filters, exclude, name) ==
    /\ ~\E x \in exclude : LabelSuffix(TrimSuffixDot(name), x)
    /\ DomainFilterMatch(filters, name)

\* provider.ZoneIDFilter.Match: the list of zone IDs, empty = unconfigured.
ZoneIDFilterMatch(ids, id) == ids = {} \/ id \in ids

\* provider.ZoneIDName.FindZone: the longest zone name that covers the name
\* at a label boundary, "" (the empty string) when no zone does.
FindZone(zoneNames, name) ==
    LET m == {z \in zoneNames : LabelSuffix(name, z)}
    IN IF m = {} THEN <<>>
       ELSE CHOOSE z \in m : \A y \in m : StrLen(y) <= StrLen(z)

\* The orders in which Go may iterate over a map with the keys S.
Orders(S) ==
    {o \in [1..Cardinality(S) -> S] : \A i, j \in 1..Cardinality(S) : i # j => o[i] # o[j]}

RECURSIVE Flatten(_)
Flatten(ss) == IF ss = <<>> THEN <<>> ELSE Head(ss) \o Flatten(Tail(ss))

(***************************************************************************)
(* zonesCache (spec section 4.4): a value, a timestamp and a duration      *)
(***************************************************************************)
zonesCacheExpired(c, now) == now - c.timestamp >= c.duration

zonesCacheGet(c) == c.zones

zonesCacheReset(c, zs, now) == [c EXCEPT !.zones = zs, !.timestamp = now]

(***************************************************************************)
(* Azure Private DNS provider (provider/azure/azure_private_dns.go)        *)
(***************************************************************************)
azureDefaultTTL == 300

\* The test of zones() on one listed zone: the domain filter and the zone-ID
\* filter, or else a configured zone-name filter that matches the name.
zoneSelected(cfg, z) ==
    IF DomainFilterMatch(cfg.domainFilter, z.Name) /\ ZoneIDFilterMatch(cfg.zoneIDFilter, z.ID)
    THEN TRUE
    ELSE cfg.zoneNameFilter # {} /\ DomainFilterMatch(cfg.zoneNameFilter, z.Name)

\* zones() that never looks at the cache.
zonesUncached(cfg, cache, now, remote, pagesOk) ==
    IF ~pagesOk
    THEN [zones |-> <<>>, err |-> TRUE, cache |-> cache, listed |-> TRUE]
    ELSE LET zs == SelectIdx(remote, {i \in 1..Len(remote) : zoneSelected(cfg, remote[i])}, 1)
         IN [zones |-> zs, err |-> FALSE,
             cache |-> zonesCacheReset(cache, zs, now), listed |-> TRUE]

\* AzurePrivateDNSProvider.zones: the cached list while the cache is fresh;
\* otherwise every page of the resource group's zones is fetched (pagesOk
\* tells whether every page arrived), the list is filtered and the cache is
\* reset.  listed records whether the zones client was called.
zones(cfg, cache, now, remote, pagesOk) ==
    IF ~zonesCacheExpired(cache, now)
    THEN [zones |-> zonesCacheGet(cache), err |-> FALSE, cache |-> cache, listed |-> FALSE]
    ELSE IF ~pagesOk
    THEN [zones |-> <<>>, err |-> TRUE, cache |-> cache, listed |-> TRUE]
    ELSE LET zs == SelectIdx(remote, {i \in 1..Len(remote) : zoneSelected(cfg, remote[i])}, 1)
         IN [zones |-> zs, err |-> FALSE,
             cache |-> zonesCacheReset(cache, zs, now), listed |-> TRUE]

ZoneNames(zs) == {zs[i].Name : i \in 1..Len(zs)}

\* zones() step by step.  A call that finds the cache expired lists the
\* zones page by page into a local list; rf is where it stands: the page it
\* fetches next, the local list, the error it has returned, and (for the
\* properties) the value the cache had when the call began.
zonesIdle == [pc |-> "idle", page |-> 0, local |-> <<>>, err |-> FALSE, old |-> <<>>]

\* pager.NextPage with the cache reset after every page.
zonesNextPageResetting(cfg, rf, cache, now, page, ok) ==
    IF ~ok
    THEN [rf |-> [zonesIdle EXCEPT !.err = TRUE], cache |-> cache]
    ELSE LET local == rf.local \o SelectIdx(page, {i \in 1..Len(page) :
                                                     zoneSelected(cfg, page[i])}, 1)
         IN [rf |-> [rf EXCEPT !.page = @ + 1, !.local = local],
             cache |-> zonesCacheReset(cache, local, now)]

\* One turn of the loop over the pages: NextPage fails and zones() returns
\* the error, or the selected zones of the page join the local list.  The
\* cache is not written.
zonesNextPage(cfg, rf, cache, now, page, ok) ==
    IF ~ok
    THEN [rf |-> [zonesIdle EXCEPT !.err = TRUE], cache |-> cache]
    ELSE LET local == rf.local \o SelectIdx(page, {i \in 1..Len(page) :
                                                     zoneSelected(cfg, page[i])}, 1)
         IN [rf |-> [rf EXCEPT !.page = @ + 1, !.local = local],
             cache |-> cache]

\* mapChange that gives up the whole list when one of its endpoints has no
\* zone.
mapChangeAborting(zoneNames, eps) ==
    [z \in zoneNames |->
        IF \E i \in 1..Len(eps) : FindZone(zoneNames, eps[i].DNSName) = <<>>
        THEN <<>>
        ELSE SelectIdx(eps, {i \in 1..Len(eps) : FindZone(zoneNames, eps[i].DNSName) = z}, 1)]

\* mapChange: the endpoints of a list whose zone is z, in order; endpoints
\* with no zone are ignored.
mapChange(zoneNames, eps) ==
    [z \in zoneNames |->
        SelectIdx(eps, {i \in 1..Len(eps) : FindZone(zoneNames, eps[i].DNSName) = z}, 1)]

\* The keys of a change map: the zones that got an endpoint.
MapKeys(changeMap) == {z \in DOMAIN changeMap : changeMap[z] # <<>>}

\* AzurePrivateDNSProvider.mapChanges
mapChanges(zs, ch) ==
    [deleted |-> mapChange(ZoneNames(zs), ch.Delete),
     updated |-> mapChange(ZoneNames(zs), ch.Create \o UpdateNew(ch))]

\* AzurePrivateDNSProvider.recordSetNameForZone
recordSetNameForZone(zone, ep) ==
    LET name == TrimSuffixDot(SubSeq(ep.DNSName, 1, Len(ep.DNSName) - Len(zone)))
    IN IF name = <<>> THEN <<"@">> ELSE name

\* AzurePrivateDNSProvider.newRecordSet: the record set of an endpoint, or an
\* error for a record type that Azure Private DNS does not hold.
newRecordSet(ep) ==
    LET ttl == IF ep.RecordTTL > 0 THEN ep.RecordTTL ELSE azureDefaultTTL
    IN CASE ep.RecordType \in {"A", "AAAA", "MX"} ->
              [err |-> FALSE, ttl |-> ttl, targets |-> ep.Targets]
         [] ep.RecordType \in {"CNAME", "TXT"} ->
              [err |-> FALSE, ttl |-> ttl, targets |-> <<ep.Targets[1]>>]
         [] OTHER -> [err |-> TRUE, ttl |-> 0, targets |-> <<>>]

\* deleteRecords for one zone with the dry-run test left out.
deleteRecordsOfZoneAlways(cfg, zone, eps) ==
    LET kept == SelectIdx(eps, {i \in 1..Len(eps) :
                    DomainFilterMatch(cfg.domainFilter, eps[i].DNSName)}, 1)
    IN [i \in 1..Len(kept) |->
          [op |-> "Delete", zone |-> zone, type |-> kept[i].RecordType,
           name |-> recordSetNameForZone(zone, kept[i]), ttl |-> 0, targets |-> <<>>]]

\* deleteRecords, the body of the loop over the zones: the Delete calls for
\* the endpoints of one zone.
deleteRecordsOfZone(cfg, zone, eps) ==
    LET kept == SelectIdx(eps, {i \in 1..Len(eps) :
                    /\ DomainFilterMatch(cfg.domainFilter, eps[i].DNSName)
                    /\ ~cfg.dryRun}, 1)
    IN [i \in 1..Len(kept) |->
          [op |-> "Delete", zone |-> zone, type |-> kept[i].RecordType,
           name |-> recordSetNameForZone(zone, kept[i]), ttl |-> 0, targets |-> <<>>]]

\* AzurePrivateDNSProvider.deleteRecords, the zones taken in the given order
deleteRecords(cfg, order, deleted) ==
    Flatten([i \in 1..Len(order) |-> deleteRecordsOfZone(cfg, order[i], deleted[order[i]])])

\* updateRecords for one zone with the test of the domain filter left out.
updateRecordsOfZoneUnfiltered(cfg, zone, eps) ==
    LET kept == SelectIdx(eps, {i \in 1..Len(eps) :
                    /\ ~cfg.dryRun
                    /\ ~newRecordSet(eps[i]).err}, 1)
    IN [i \in 1..Len(kept) |->
          [op |-> "CreateOrUpdate", zone |-> zone, type |-> kept[i].RecordType,
           name |-> recordSetNameForZone(zone, kept[i]),
           ttl |-> newRecordSet(kept[i]).ttl, targets |-> newRecordSet(kept[i]).targets]]

\* updateRecords, the body of the loop over the zones: the CreateOrUpdate
\* calls for the endpoints of one zone.
updateRecordsOfZone(cfg, zone, eps) ==
    LET kept == SelectIdx(eps, {i \in 1..Len(eps) :
                    /\ DomainFilterMatch(cfg.domainFilter, eps[i].DNSName)
                    /\ ~cfg.dryRun
                    /\ ~newRecordSet(eps[i]).err}, 1)
    IN [i \in 1..Len(kept) |->
          [op |-> "CreateOrUpdate", zone |-> zone, type |-> kept[i].RecordType,
           name |-> recordSetNameForZone(zone, kept[i]),
           ttl |-> newRecordSet(kept[i]).ttl, targets |-> newRecordSet(kept[i]).targets]]

\* AzurePrivateDNSProvider.updateRecords, the zones taken in the given order
updateRecords(cfg, order, updated) ==
    Flatten([i \in 1..Len(order) |-> updateRecordsOfZone(cfg, order[i], updated[order[i]])])

\* ApplyChanges with the updates sent before the deletions.
azureApplyCallsUpdatesFirst(cfg, dOrder, uOrder, m) ==
    updateRecords(cfg, uOrder, m.updated) \o deleteRecords(cfg, dOrder, m.deleted)

\* ApplyChanges after mapChanges: the calls of deleteRecords, then those of
\* updateRecords.
azureApplyCalls(cfg, dOrder, uOrder, m) ==
    deleteRecords(cfg, dOrder, m.deleted) \o updateRecords(cfg, uOrder, m.updated)

\* The record store behind recordSetsClient: one record set per
\* (zone, type, name).
RecordSetKey(r) == <<r.zone, r.type, r.name>>

\* The effect of one successful call of recordSetsClient on the store.
recordSetsClientCall(store, call) ==
    LET rest == {r \in store : RecordSetKey(r) # RecordSetKey(call)}
    IN IF call.op = "Delete" THEN rest
       ELSE rest \cup {[zone |-> call.zone, type |-> call.type, name |-> call.name,
                        ttl |-> call.ttl, targets |-> call.targets]}

\* The store after a sequence of calls of which those in failed return an
\* error and change nothing.
RECURSIVE recordSetsClientCalls(_, _, _, _)
recordSetsClientCalls(store, calls, failed, i) ==
    IF i > Len(calls) THEN store
    ELSE recordSetsClientCalls(
            IF i \in failed THEN store ELSE recordSetsClientCall(store, calls[i]),
            calls, failed, i + 1)

\* formatAzureDNSName: the DNS name of a record set of a zone
formatAzureDNSName(recordName, zoneName) ==
    IF recordName = <<"@">> THEN zoneName ELSE recordName \o <<Dot>> \o zoneName

\* AzurePrivateDNSProvider.Records, after zones(): the endpoints of the
\* record sets of the zones.
azureRecords(cfg, zs, store) ==
    {Endpoint(formatAzureDNSName(r.name, r.zone), r.type, "", r.ttl, r.targets, NoLabels) :
        r \in {r \in store :
                /\ r.zone \in ZoneNames(zs)
                /\ ~(cfg.zoneNameFilter # {}
                     /\ ~DomainFilterMatch(cfg.domainFilter, formatAzureDNSName(r.name, r.zone)))
                /\ r.targets # <<>>}}

(***************************************************************************)
(* CoreDNS provider (provider/coredns/coredns.go)                          *)
(***************************************************************************)
randomPrefixLabel == <<"prefix">>
originalTextLabel == <<"originalText">>

\* ep.Labels[key]: the value of a missing key is the empty string
LabelOf(labels, key) == IF key \in DOMAIN labels THEN labels[key] ELSE <<>>

\* ep.Labels[key] = value
SetLabel(labels, key, value) ==
    [k \in DOMAIN labels \cup {key} |-> IF k = key THEN value ELSE labels[k]]

\* shouldSkipLabel
shouldSkipLabel(label) == label \in {originalTextLabel, randomPrefixLabel, <<"resource">>}

\* coreDNSProvider.etcdKeyFor
etcdKeyFor(cfg, dnsName) ==
    cfg.coreDNSPrefix \o Join(Reverse(Split(dnsName, Dot)), Slash)

\* etcdClient.SaveService and etcdClient.DeleteService on the store, a
\* function from keys to services: Put writes one key, Delete removes every
\* key that starts with the given string.
etcdCall(store, call) ==
    IF call.op = "SaveService"
    THEN [k \in DOMAIN store \cup {call.key} |->
            IF k = call.key THEN call.service ELSE store[k]]
    ELSE [k \in {k \in DOMAIN store : ~HasPrefix(k, call.key)} |-> store[k]]

\* One call of the client while ApplyChanges runs: st holds the store, the
\* calls made, whether a call has returned an error, and the number of random
\* prefixes drawn; the call numbered failAt returns an error.
clientCall(st, call, failAt) ==
    IF Len(st.calls) + 1 = failAt
    THEN [st EXCEPT !.calls = Append(@, call), !.err = TRUE]
    ELSE [st EXCEPT !.calls = Append(@, call), !.store = etcdCall(@, call)]

\* fmt.Sprintf("%08x", rand.Int31()): the next value of the random source
randomPrefix(st, rnd) == rnd[(st.drawn % Len(rnd)) + 1]

\* createServicesForEndpoint, the loop over the targets: acc holds st and the
\* services made so far; ref names the Labels map of the endpoint.
RECURSIVE createServices(_, _, _, _, _, _, _)
createServices(cfg, acc, dnsName, ep, ref, rnd, i) ==
    IF i > Len(ep.Targets) THEN acc
    ELSE LET target == ep.Targets[i]
             labels == acc.st.heap[ref]
             known == LabelOf(labels, target) # <<>>
             prefix == IF known THEN labels[target] ELSE randomPrefix(acc.st, rnd)
             service == [Host |-> target,
                         Text |-> LabelOf(labels, originalTextLabel),
                         Key |-> etcdKeyFor(cfg, prefix \o <<Dot>> \o dnsName),
                         TargetStrip |-> Count(prefix, Dot) + 1,
                         TTL |-> ep.RecordTTL]
             st1 == [acc.st EXCEPT !.heap[ref] = SetLabel(labels, target, prefix),
                                   !.drawn = IF known THEN @ ELSE @ + 1]
         IN createServices(cfg, [st |-> st1, services |-> Append(acc.services, service)],
                           dnsName, ep, ref, rnd, i + 1)

\* createServicesForEndpoint, the loop that cleans outdated labels: the
\* labels are visited in the order labelOrder, and a failed DeleteService
\* ends the loop.
RECURSIVE cleanOutdatedLabels(_, _, _, _, _, _, _, _)
cleanOutdatedLabels(cfg, st, dnsName, ep, ref, labelOrder, failAt, i) ==
    IF i > Len(labelOrder) \/ st.err THEN st
    ELSE LET label == labelOrder[i]
             outdated == /\ label \in DOMAIN st.heap[ref]
                         /\ ~shouldSkipLabel(label)
                         /\ label \notin Range(ep.Targets)
             key == etcdKeyFor(cfg, st.heap[ref][label] \o <<Dot>> \o dnsName)
         IN cleanOutdatedLabels(cfg,
                IF outdated /\ ~cfg.dryRun
                THEN clientCall(st, [op |-> "DeleteService", key |-> key, service |-> <<>>], failAt)
                ELSE st,
                dnsName, ep, ref, labelOrder, failAt, i + 1)

\* coreDNSProvider.createServicesForEndpoint
createServicesForEndpoint(cfg, acc, dnsName, ep, ref, rnd, labelOrder, failAt) ==
    LET made == createServices(cfg, acc, dnsName, ep, ref, rnd, 1)
    IN [st |-> cleanOutdatedLabels(cfg, made.st, dnsName, ep, ref, labelOrder, failAt, 1),
        services |-> made.services]

\* applyGroup, the first loop: the services of the endpoints that are not
\* TXT; an error of createServicesForEndpoint ends it.
RECURSIVE applyGroupCreate(_, _, _, _, _, _, _, _)
applyGroupCreate(cfg, acc, dnsName, group, rnd, labelOrder, failAt, i) ==
    IF i > Len(group) \/ acc.st.err THEN acc
    ELSE applyGroupCreate(cfg,
            IF group[i].ep.RecordType # "TXT"
            THEN createServicesForEndpoint(cfg, acc, dnsName, group[i].ep, group[i].ref,
                                           rnd, labelOrder, failAt)
            ELSE acc,
            dnsName, group, rnd, labelOrder, failAt, i + 1)

\* updateTXTRecords, the loop over the TXT endpoints of the group: acc holds
\* st, the services and index.
RECURSIVE updateTXTLoop(_, _, _, _, _, _)
updateTXTLoop(cfg, acc, dnsName, group, rnd, i) ==
    IF i > Len(group) THEN acc
    ELSE IF group[i].ep.RecordType # "TXT"
    THEN updateTXTLoop(cfg, acc, dnsName, group, rnd, i + 1)
    ELSE LET ep == group[i].ep
             labels == acc.st.heap[group[i].ref]
             fresh == acc.index >= Len(acc.services)
             known == LabelOf(labels, randomPrefixLabel) # <<>>
             prefix == IF known THEN labels[randomPrefixLabel] ELSE randomPrefix(acc.st, rnd)
             services1 == IF fresh
                          THEN Append(acc.services,
                                  [Host |-> <<>>, Text |-> <<>>,
                                   Key |-> etcdKeyFor(cfg, prefix \o <<Dot>> \o dnsName),
                                   TargetStrip |-> Count(prefix, Dot) + 1,
                                   TTL |-> ep.RecordTTL])
                          ELSE acc.services
             st1 == [acc.st EXCEPT !.drawn = IF fresh /\ ~known THEN @ + 1 ELSE @]
         IN updateTXTLoop(cfg,
                [st |-> st1,
                 services |-> [services1 EXCEPT ![acc.index + 1].Text = ep.Targets[1]],
                 index |-> acc.index + 1],
                dnsName, group, rnd, i + 1)

\* coreDNSProvider.updateTXTRecords
updateTXTRecords(cfg, acc, dnsName, group, rnd) ==
    LET done == updateTXTLoop(cfg, [st |-> acc.st, services |-> acc.services, index |-> 0],
                              dnsName, group, rnd, 1)
    IN [st |-> done.st,
        services |-> [i \in 1..Len(done.services) |->
                        IF done.index > 0 /\ i > done.index
                        THEN [done.services[i] EXCEPT !.Text = <<>>]
                        ELSE done.services[i]]]

\* applyGroup, the last loop with the dry-run test left out.
RECURSIVE saveServicesAlways(_, _, _, _, _)
saveServicesAlways(cfg, st, services, failAt, i) ==
    IF i > Len(services) \/ st.err THEN st
    ELSE saveServicesAlways(cfg,
            clientCall(st, [op |-> "SaveService", key |-> services[i].Key,
                            service |-> services[i]], failAt),
            services, failAt, i + 1)

\* applyGroup, the last loop: SaveService for every service unless dryRun;
\* a failed call ends it.
RECURSIVE saveServices(_, _, _, _, _)
saveServices(cfg, st, services, failAt, i) ==
    IF i > Len(services) \/ st.err THEN st
    ELSE saveServices(cfg,
            IF cfg.dryRun THEN st
            ELSE clientCall(st, [op |-> "SaveService", key |-> services[i].Key,
                                 service |-> services[i]], failAt),
            services, failAt, i + 1)

\* coreDNSProvider.applyGroup
applyGroup(cfg, st, dnsName, group, rnd, labelOrder, failAt) ==
    LET created == applyGroupCreate(cfg, [st |-> st, services |-> <<>>], dnsName, group,
                                    rnd, labelOrder, failAt, 1)
        withTXT == updateTXTRecords(cfg, created, dnsName, group, rnd)
    IN IF created.st.err THEN created.st
       ELSE saveServices(cfg, withTXT.st, withTXT.services, failAt, 1)

\* coreDNSProvider.groupEndpoints: the endpoints of Create and of UpdateNew
\* by DNS name.  An UpdateNew endpoint gets the Labels map of its UpdateOld
\* endpoint, the map itself and not a copy: ref names the map an endpoint
\* holds.
groupEndpoints(ch) ==
    LET all == [i \in 1..Len(ch.Create) |-> [ep |-> ch.Create[i], ref |-> <<"Create", i>>]]
               \o [i \in 1..Len(ch.Update) |-> [ep |-> ch.Update[i].New, ref |-> <<"Update", i>>]]
    IN [n \in {all[i].ep.DNSName : i \in 1..Len(all)} |->
          SelectIdx(all, {i \in 1..Len(all) : all[i].ep.DNSName = n}, 1)]

\* The Labels maps that groupEndpoints leaves the grouped endpoints with.
groupLabels(ch) ==
    [r \in {<<"Create", i>> : i \in 1..Len(ch.Create)}
           \cup {<<"Update", i>> : i \in 1..Len(ch.Update)} |->
        IF r[1] = "Create" THEN ch.Create[r[2]].Labels ELSE ch.Update[r[2]].Old.Labels]

\* ApplyChanges, the loop over the groups, taken in the given order; an error
\* of applyGroup ends it.
RECURSIVE applyGroups(_, _, _, _, _, _, _, _)
applyGroups(cfg, st, grouped, order, rnd, labelOrder, failAt, i) ==
    IF i > Len(order) \/ st.err THEN st
    ELSE applyGroups(cfg,
            IF ~DomainFilterMatch(cfg.domainFilter, order[i]) THEN st
            ELSE applyGroup(cfg, st, order[i], grouped[order[i]], rnd, labelOrder, failAt),
            grouped, order, rnd, labelOrder, failAt, i + 1)

\* coreDNSProvider.deleteEndpoints
RECURSIVE deleteEndpoints(_, _, _, _, _)
deleteEndpoints(cfg, st, endpoints, failAt, i) ==
    IF i > Len(endpoints) \/ st.err THEN st
    ELSE LET ep == endpoints[i]
             prefix == LabelOf(ep.Labels, randomPrefixLabel)
             dnsName == IF prefix # <<>> THEN prefix \o <<Dot>> \o ep.DNSName ELSE ep.DNSName
         IN deleteEndpoints(cfg,
                IF cfg.dryRun THEN st
                ELSE clientCall(st, [op |-> "DeleteService", key |-> etcdKeyFor(cfg, dnsName),
                                     service |-> <<>>], failAt),
                endpoints, failAt, i + 1)

\* coreDNSProvider.ApplyChanges: the state after the call; st.err tells
\* whether it returned an error.
coreDNSApplyChanges(cfg, store, ch, order, rnd, labelOrder, failAt) ==
    LET st0 == [store |-> store, calls |-> <<>>, err |-> FALSE, drawn |-> 0,
                heap |-> groupLabels(ch)]
        applied == applyGroups(cfg, st0, groupEndpoints(ch), order, rnd, labelOrder, failAt, 1)
    IN IF applied.err THEN applied
       ELSE deleteEndpoints(cfg, applied, ch.Delete, failAt, 1)

\* The Changes value as the caller finds it after ApplyChanges: the Labels
\* maps of its endpoints hold what the call wrote into them.
changesAfter(ch, heap) ==
    [Create |-> [i \in 1..Len(ch.Create) |->
                    [ch.Create[i] EXCEPT !.Labels = heap[<<"Create", i>>]]],
     Update |-> [i \in 1..Len(ch.Update) |->
                    [Old |-> [ch.Update[i].Old EXCEPT !.Labels = heap[<<"Update", i>>]],
                     New |-> [ch.Update[i].New EXCEPT !.Labels = heap[<<"Update", i>>]]]],
     Delete |-> ch.Delete]

(***************************************************************************)
(* PowerDNS provider (provider/pdns/pdns.go)                               *)
(***************************************************************************)
defaultTTL == 300

MaxInt32 == 2147483647

\* net.ParseIP(s) != nil, for the targets of the model
IsIP(s) == s \in {IP1, IP2}

\* provider.EnsureTrailingDot: a host name gets one trailing dot, an IP
\* address stays as it is.
EnsureTrailingDot(hostname) ==
    IF IsIP(hostname) THEN hostname ELSE TrimSuffixDot(hostname) \o <<Dot>>

\* endpoint.NewEndpointWithTTL: the adapter's boundary, where the trailing
\* dot of the name and of the host-name targets goes.
NewEndpointWithTTL(dnsName, recordType, ttl, targets) ==
    Endpoint(TrimSuffixDot(dnsName), recordType, "", ttl,
             [i \in 1..Len(targets) |->
                IF recordType \in {"TXT", "NAPTR", "SRV"} THEN targets[i]
                ELSE TrimSuffixDot(targets[i])],
             NoLabels)

\* The order of Go's < on strings, for the chunks of the model (none of them
\* starts another one).
ChunkRank(c) ==
    CASE c = Dot -> 0
      [] c = "bar" -> 1
      [] c = "com" -> 2
      [] c = "example" -> 3
      [] c = "foo" -> 4
      [] c = "org" -> 5
      [] c = "other" -> 6
      [] OTHER -> 7

RECURSIVE StrLess(_, _)
StrLess(a, b) ==
    IF b = <<>> THEN FALSE
    ELSE IF a = <<>> THEN TRUE
    ELSE IF Head(a) = Head(b) THEN StrLess(Tail(a), Tail(b))
    ELSE ChunkRank(Head(a)) < ChunkRank(Head(b))

TypeRank(t) ==
    CASE t = "A" -> 0
      [] t = "AAAA" -> 1
      [] t = "ALIAS" -> 2
      [] t = "CNAME" -> 3
      [] t = "MX" -> 4
      [] t = "SRV" -> 5
      [] OTHER -> 6

\* The less function of the sort of the endpoints
endpointLess(a, b) ==
    IF a.DNSName = b.DNSName THEN TypeRank(a.RecordType) < TypeRank(b.RecordType)
    ELSE StrLess(a.DNSName, b.DNSName)

RECURSIVE insertEndpoint(_, _)
insertEndpoint(sorted, e) ==
    IF sorted = <<>> THEN <<e>>
    ELSE IF endpointLess(e, Head(sorted)) THEN <<e>> \o sorted
    ELSE <<Head(sorted)>> \o insertEndpoint(Tail(sorted), e)

\* sort.SliceStable(endpoints, ...)
RECURSIVE sortEndpoints(_, _)
sortEndpoints(eps, acc) ==
    IF eps = <<>> THEN acc ELSE sortEndpoints(Tail(eps), insertEndpoint(acc, Head(eps)))

RECURSIVE insertZone(_, _)
insertZone(sorted, z) ==
    IF sorted = <<>> THEN <<z>>
    ELSE IF StrLen(z.Name) > StrLen(Head(sorted).Name) THEN <<z>> \o sorted
    ELSE <<Head(sorted)>> \o insertZone(Tail(sorted), z)

\* sort.SliceStable(filteredZones, ...): the longest names first
RECURSIVE sortZones(_, _)
sortZones(zs, acc) ==
    IF zs = <<>> THEN acc ELSE sortZones(Tail(zs), insertZone(acc, Head(zs)))

\* PDNSAPIClient.PartitionZones
PartitionZones(cfg, zs) ==
    IF cfg.domainFilter # {} \/ cfg.domainExclude # {}
    THEN [filtered |-> SelectIdx(zs, {i \in 1..Len(zs) :
                          DomainFilterMatchExcluding(cfg.domainFilter, cfg.domainExclude,
                                                     zs[i].Name)}, 1),
          residual |-> SelectIdx(zs, {i \in 1..Len(zs) :
                          ~DomainFilterMatchExcluding(cfg.domainFilter, cfg.domainExclude,
                                                      zs[i].Name)}, 1)]
    ELSE [filtered |-> zs, residual |-> <<>>]

\* The test of a zone with the dot before the zone name left out: a plain
\* string suffix.
zoneMatchesRawSuffix(dnsname, zoneName) ==
    dnsname = zoneName \/ HasSuffix(dnsname, zoneName)

\* ConvertEndpointsToZones, the test of an endpoint name against a zone
zoneMatches(dnsname, zoneName) ==
    dnsname = zoneName \/ HasSuffix(dnsname, <<Dot>> \o zoneName)

\* ConvertEndpointsToZones, the rrset of an endpoint matched to a zone
\* An endpoint whose RecordTTL, an int64, is high * 2^31 + ep.RecordTTL: the
\* part of the TTL above 31 bits is a field of its own, left out when 0.
EndpointWithHighTTL(ep, high) ==
    [f \in DOMAIN ep \cup {"RecordTTLHigh"} |->
        IF f = "RecordTTLHigh" THEN high ELSE ep[f]]

RecordTTLHigh(ep) == IF "RecordTTLHigh" \in DOMAIN ep THEN ep.RecordTTLHigh ELSE 0

\* int64(ep.RecordTTL) > int64(math.MaxInt32)
TTLOverflows(ep) == RecordTTLHigh(ep) > 0 \/ ep.RecordTTL > MaxInt32

\* The rrset with a TTL that is the RecordTTL as it is.
rrsetOfNoDefault(ep, zoneName, changetype) ==
    LET dnsname == EnsureTrailingDot(ep.DNSName)
    IN [Name |-> dnsname,
        Type_ |-> IF dnsname = zoneName /\ ep.RecordType = "CNAME" THEN "ALIAS"
                  ELSE ep.RecordType,
        Records |-> [i \in 1..Len(ep.Targets) |->
                        [Content |-> IF ep.RecordType \in {"CNAME", "ALIAS", "MX", "SRV"}
                                     THEN EnsureTrailingDot(ep.Targets[i])
                                     ELSE ep.Targets[i],
                         Disabled |-> FALSE]],
        Changetype |-> changetype,
        Ttl |-> IF changetype # "REPLACE" THEN 0 ELSE ep.RecordTTL]

rrsetOf(ep, zoneName, changetype) ==
    LET dnsname == EnsureTrailingDot(ep.DNSName)
    IN [Name |-> dnsname,
        Type_ |-> IF dnsname = zoneName /\ ep.RecordType = "CNAME" THEN "ALIAS"
                  ELSE ep.RecordType,
        Records |-> [i \in 1..Len(ep.Targets) |->
                        [Content |-> IF ep.RecordType \in {"CNAME", "ALIAS", "MX", "SRV"}
                                     THEN EnsureTrailingDot(ep.Targets[i])
                                     ELSE ep.Targets[i],
                         Disabled |-> FALSE]],
        Changetype |-> changetype,
        Ttl |-> IF changetype # "REPLACE" THEN 0
                ELSE IF ep.RecordTTL = 0 /\ RecordTTLHigh(ep) = 0 THEN defaultTTL
                ELSE ep.RecordTTL]

\* ConvertEndpointsToZones, the loop over the filtered zones: acc holds the
\* endpoints not matched so far, the zone list, and whether a TTL overflowed.
RECURSIVE convertLoop(_, _, _, _)
convertLoop(zs, acc, changetype, i) ==
    IF i > Len(zs) \/ acc.err THEN acc
    ELSE LET zone == zs[i]
             hit == {k \in 1..Len(acc.endpoints) :
                       zoneMatches(EnsureTrailingDot(acc.endpoints[k].DNSName), zone.Name)}
             matched == SelectIdx(acc.endpoints, hit, 1)
             overflow == changetype = "REPLACE"
                         /\ \E k \in hit : TTLOverflows(acc.endpoints[k])
             rrsets == [k \in 1..Len(matched) |-> rrsetOf(matched[k], zone.Name, changetype)]
         IN Only({convertLoop(zs, next, changetype, i + 1) :
                    next \in {[endpoints |-> SelectIdx(acc.endpoints,
                                                (1..Len(acc.endpoints)) \ hit, 1),
                               zoneList |-> IF rrsets # <<>> /\ ~overflow
                                            THEN Append(acc.zoneList,
                                                    [Id |-> zone.Id, Name |-> zone.Name,
                                                     Rrsets |-> rrsets])
                                            ELSE acc.zoneList,
                               err |-> overflow]}})

\* PDNSProvider.ConvertEndpointsToZones, given what ListZones returns; the
\* endpoints that match a residual zone or no zone are left out.
ConvertEndpointsToZones(cfg, eps, changetype, listed) ==
    Only({[err |-> done.err, zoneList |-> IF done.err THEN <<>> ELSE done.zoneList] :
            done \in {convertLoop(filteredZones,
                                  [endpoints |-> endpoints, zoneList |-> <<>>, err |-> FALSE],
                                  changetype, 1) :
                        endpoints \in {sortEndpoints(eps, <<>>)},
                        filteredZones \in {sortZones(PartitionZones(cfg, listed).filtered, <<>>)}}})

\* PDNSProvider.convertRRSetToEndpoints
convertRRSetToEndpoints(rr) ==
    NewEndpointWithTTL(rr.Name,
                       IF rr.Type_ = "ALIAS" THEN "CNAME" ELSE rr.Type_,
                       rr.Ttl,
                       LET shown == SelectIdx(rr.Records,
                                       {i \in 1..Len(rr.Records) : ~rr.Records[i].Disabled}, 1)
                       IN [i \in 1..Len(shown) |-> shown[i].Content])

\* PDNSProvider.Records when no call of the client fails: the endpoints of
\* the rrsets of the filtered zones.
pdnsRecords(cfg, server) ==
    LET filteredZones == PartitionZones(cfg, server).filtered
    IN Flatten([z \in 1..Len(filteredZones) |->
                  [r \in 1..Len(filteredZones[z].Rrsets) |->
                      convertRRSetToEndpoints(filteredZones[z].Rrsets[r])]])

\* The PowerDNS server's PATCH of one rrset on the rrsets of a zone: REPLACE
\* puts the rrset in the place of the one of its name and type, DELETE
\* removes that one.
patchRrset(rrsets, rr) ==
    LET same(x) == x.Name = rr.Name /\ x.Type_ = rr.Type_
        rest == SelectIdx(rrsets, {i \in 1..Len(rrsets) : ~same(rrsets[i])}, 1)
    IN IF rr.Changetype = "REPLACE"
       THEN Append(rest, [Name |-> rr.Name, Type_ |-> rr.Type_, Ttl |-> rr.Ttl,
                          Records |-> rr.Records])
       ELSE rest

RECURSIVE patchRrsets(_, _)
patchRrsets(rrsets, patch) ==
    IF patch = <<>> THEN rrsets
    ELSE patchRrsets(patchRrset(rrsets, Head(patch)), Tail(patch))

\* PDNSAPIClient.PatchZone when it succeeds
PatchZone(server, zoneId, zone) ==
    [i \in 1..Len(server) |->
        IF server[i].Id = zoneId
        THEN [server[i] EXCEPT !.Rrsets = patchRrsets(@, zone.Rrsets)]
        ELSE server[i]]

\* The loop over the zone list as it would be if an error of PatchZone did
\* not end it.
RECURSIVE patchZonesGoOn(_, _, _, _)
patchZonesGoOn(st, zonelist, failAt, i) ==
    IF i > Len(zonelist) THEN st
    ELSE Only({patchZonesGoOn(next, zonelist, failAt, i + 1) :
                 next \in {IF st.calls + 1 = failAt
                           THEN [st EXCEPT !.calls = @ + 1, !.err = TRUE,
                                           !.log = Append(@, [Id |-> zonelist[i].Id,
                                                              Rrsets |-> zonelist[i].Rrsets,
                                                              ok |-> FALSE])]
                           ELSE [st EXCEPT !.calls = @ + 1, !.patched = @ + 1,
                                           !.server = PatchZone(@, zonelist[i].Id,
                                                                zonelist[i]),
                                           !.log = Append(@, [Id |-> zonelist[i].Id,
                                                              Rrsets |-> zonelist[i].Rrsets,
                                                              ok |-> TRUE])]}})

\* mutateRecords, the loop over the zone list: st holds the server, the
\* number of calls of the client so far, whether one has failed, and the
\* log of the PatchZone calls; the call numbered failAt fails.
RECURSIVE patchZones(_, _, _, _)
patchZones(st, zonelist, failAt, i) ==
    IF i > Len(zonelist) \/ st.err THEN st
    ELSE Only({patchZones(next, zonelist, failAt, i + 1) :
                 next \in {IF st.calls + 1 = failAt
                           THEN [st EXCEPT !.calls = @ + 1, !.err = TRUE,
                                           !.log = Append(@, [Id |-> zonelist[i].Id,
                                                              Rrsets |-> zonelist[i].Rrsets,
                                                              ok |-> FALSE])]
                           ELSE [st EXCEPT !.calls = @ + 1, !.patched = @ + 1,
                                           !.server = PatchZone(@, zonelist[i].Id,
                                                                zonelist[i]),
                                           !.log = Append(@, [Id |-> zonelist[i].Id,
                                                              Rrsets |-> zonelist[i].Rrsets,
                                                              ok |-> TRUE])]}})

\* PDNSProvider.mutateRecords: ListZones within ConvertEndpointsToZones is
\* the first call of the client.
mutateRecords(cfg, st, endpoints, changetype, failAt) ==
    IF st.calls + 1 = failAt
    THEN [st EXCEPT !.calls = @ + 1, !.err = TRUE]
    ELSE Only({IF conv.err THEN [st1 EXCEPT !.err = TRUE]
               ELSE patchZones(st1, conv.zoneList, failAt, 1) :
                 conv \in {ConvertEndpointsToZones(cfg, endpoints, changetype, st.server)},
                 st1 \in {[st EXCEPT !.calls = @ + 1]}})

\* ApplyChanges without its second step: the updates are never sent.
pdnsApplyChangesNoUpdate(cfg, server, ch, failAt) ==
    LET st0 == [server |-> server, calls |-> 0, patched |-> 0, err |-> FALSE, log |-> <<>>]
        afterCreate(st) ==
            IF ch.Create = <<>> THEN st
            ELSE mutateRecords(cfg, st, ch.Create, "REPLACE", failAt)
        afterDelete(st) ==
            IF st.err \/ ch.Delete = <<>> THEN st
            ELSE mutateRecords(cfg, st, ch.Delete, "DELETE", failAt)
    IN Only({afterDelete(st1) : st1 \in {afterCreate(st0)}})

\* PDNSProvider.ApplyChanges: Create, then UpdateNew, then Delete, each only
\* when it is not empty, and the first error ends the call.
pdnsApplyChanges(cfg, server, ch, failAt) ==
    LET st0 == [server |-> server, calls |-> 0, patched |-> 0, err |-> FALSE, log |-> <<>>]
        afterCreate(st) ==
            IF ch.Create = <<>> THEN st
            ELSE mutateRecords(cfg, st, ch.Create, "REPLACE", failAt)
        afterUpdate(st) ==
            IF st.err \/ ch.Update = <<>> THEN st
            ELSE mutateRecords(cfg, st, UpdateNew(ch), "REPLACE", failAt)
        afterDelete(st) ==
            IF st.err \/ ch.Delete = <<>> THEN st
            ELSE mutateRecords(cfg, st, ch.Delete, "DELETE", failAt)
    IN Only({Only({afterDelete(st2) : st2 \in {afterUpdate(st1)}}) :
                st1 \in {afterCreate(st0)}})

(***************************************************************************)
(* State                                                                   *)
(***************************************************************************)
VARIABLES
    phase,      \* where the reconciliation pipeline stands
    observed,   \* registry: the records read from the provider, with markers
    current,    \* Plan input: the owned current endpoints
    desired,    \* Plan input: the desired endpoints, as collected
    changes     \* Plan output

VARIABLES
    azCfg,      \* Azure: the provider's configuration (filters, dryRun, cache duration)
    azNow,      \* Azure: the clock
    azCache,    \* Azure: the zones cache
    azRemote,   \* Azure: the zones of the resource group
    azStore,    \* Azure: the record sets behind recordSetsClient
    azLast,     \* Azure: what the last call of the provider did and returned
    azRefresh,  \* Azure: where a call of zones() stands that lists page by page
    azReader    \* Azure: what the last reader of the zones cache got

VARIABLES
    cdCfg,      \* CoreDNS: the provider's configuration
    cdStore,    \* CoreDNS: the services in etcd, by key
    cdLast      \* CoreDNS: what the last call of the provider did and returned

VARIABLES
    pdCfg,      \* PowerDNS: the provider's configuration
    pdServer,   \* PowerDNS: the zones of the server with their rrsets
    pdBudget,   \* PowerDNS: how many more calls of the client may fail
    pdLast      \* PowerDNS: what the last call of the provider did and returned

VARIABLES
    ctor,       \* what the constructors were given and what they returned
    gBatch,     \* Google: the change set given to batchChange and its batches
    pdReq       \* PowerDNS: the request of the API client that is under way

planVars == <<phase, observed, current, desired, changes>>

azVars == <<azCfg, azNow, azCache, azRemote, azStore, azLast, azRefresh, azReader>>

cdVars == <<cdCfg, cdStore, cdLast>>

pdVars == <<pdCfg, pdServer, pdBudget, pdLast>>

restVars == <<ctor, gBatch, pdReq>>

vars == <<planVars, azVars, cdVars, pdVars, restVars>>

\* The parts of the state that a specification leaves aside stay idle.
PlanIdle ==
    /\ phase = "idle"
    /\ observed = <<>>
    /\ current = <<>>
    /\ desired = <<>>
    /\ changes = [Create |-> <<>>, Update |-> <<>>, Delete |-> <<>>]

AzureIdle ==
    /\ azCfg = <<>>
    /\ azNow = 0
    /\ azCache = <<>>
    /\ azRemote = <<>>
    /\ azStore = {}
    /\ azLast = <<>>
    /\ azRefresh = <<>>
    /\ azReader = <<>>

CoreDNSIdle ==
    /\ cdCfg = <<>>
    /\ cdStore = <<>>
    /\ cdLast = <<>>

PdnsIdle ==
    /\ pdCfg = <<>>
    /\ pdServer = <<>>
    /\ pdBudget = 0
    /\ pdLast = <<>>

CtorIdle == ctor = <<>>

BatchIdle == gBatch = <<>>

ReqIdle == pdReq = <<>>

RestIdle == CtorIdle /\ BatchIdle /\ ReqIdle

(***************************************************************************)
(* Bounds                                                                  *)
(***************************************************************************)
MaxCurrent == 2     \* endpoints of a current list
MaxDesired == 2     \* raw endpoints of a desired list
MaxDuration == 1    \* the longest duration of a zones cache
MaxNow == 2         \* the clock stops here
MaxApply == 2       \* calls of the CoreDNS provider in a behaviour
MaxFailAt == 2      \* the call of the etcd client that fails is among the first ones
MaxRandom == 2      \* length of the cycle of random prefixes
MaxPdnsEndpoints == 2   \* endpoints of a call of ConvertEndpointsToZones
MaxPdnsDesired == 2     \* endpoints of the desired state of the PowerDNS cycles
MaxFailures == 1        \* calls of the PowerDNS client that fail in a behaviour
MaxPdnsFailAt == 4      \* the call that fails in ApplyChanges is among the first ones
MaxPdnsApply == 2       \* calls of ApplyChanges in a behaviour of the PowerDNS provider

\* Sequences of at most n members of S.
SeqUpTo(S, n) == UNION {[1..k -> S] : k \in 0..n}

\* Sequences with one entry per key.
KeyedSeqUpTo(S, n) ==
    {s \in SeqUpTo(S, n) : \A i, j \in 1..Len(s) : i # j => Key(s[i]) # Key(s[j])}

(***************************************************************************)
(* The Plan on its own: inputs drawn at Init, Plan applied once            *)
(***************************************************************************)
PlanCurrentUniverse ==
    {Endpoint(foo_example_com, "A", "", ttl, t, NoLabels) :
        ttl \in {300, 600}, t \in {<<IP1>>, <<IP1, IP2>>}}
    \cup {Endpoint(foo_example_com, "CNAME", "", ttl, <<Host1>>, NoLabels) : ttl \in {300, 600}}
    \cup {Endpoint(foo_example_com, "A", "blue", 300, <<IP1>>, NoLabels)}

PlanDesiredUniverse ==
    {Endpoint(foo_example_com, "A", "", ttl, t, NoLabels) :
        ttl \in {0, 300, 600}, t \in {<<IP1>>, <<IP2>>, <<IP2, IP1>>}}
    \cup {Endpoint(foo_example_com, "CNAME", "", 300, t, NoLabels) :
            t \in {<<Host1>>, <<Host2>>, <<Host1, Host2>>}}
    \cup {Endpoint(foo_example_com, "A", "blue", ttl, <<IP1>>, NoLabels) : ttl \in {0, 300}}

PlanInit ==
    /\ RestIdle
    /\ AzureIdle
    /\ CoreDNSIdle
    /\ PdnsIdle
    /\ phase = "input"
    /\ observed = <<>>
    /\ current \in KeyedSeqUpTo(PlanCurrentUniverse, MaxCurrent)
    /\ desired \in SeqUpTo(PlanDesiredUniverse, MaxDesired)
    /\ changes = EmptyChanges

\* One planning step of the controller: changes := Plan(current, desired).
RunPlan ==
    /\ phase = "input"
    /\ changes' = Plan(current, desired)
    /\ phase' = "planned"
    /\ UNCHANGED <<restVars, observed, current, desired, azVars, cdVars, pdVars>>

PlanNext == RunPlan

SpecPlan == PlanInit /\ [][PlanNext]_vars

(***************************************************************************)
(* Claims about the Plan                                                   *)
(***************************************************************************)
UniqueKeys(eps) ==
    \A i, j \in 1..Len(eps) : i # j => Key(eps[i]) # Key(eps[j])

UpdatedKeys == {Key(changes.Update[i].New) : i \in 1..Len(changes.Update)}
CreatedKeys == {Key(changes.Create[i]) : i \in 1..Len(changes.Create)}
DeletedKeys == {Key(changes.Delete[i]) : i \in 1..Len(changes.Delete)}

\* Two entries differ in the targets (as sets) or in the TTL.
EntriesDiffer(c, d) ==
    \/ {c.Targets[i] : i \in 1..Len(c.Targets)} # {d.Targets[i] : i \in 1..Len(d.Targets)}
    \/ c.RecordTTL # d.RecordTTL

\* current and desired are equal as keyed sets.
EqualAsKeyedSets ==
    /\ Keys(current) = Keys(desired)
    /\ \A k \in Keys(current) : ~EntriesDiffer(Lookup(current, k), Lookup(desired, k))

\* Every Update pair is (the current entry, the desired entry) of its key.
UpdatePairsAreCurrentAndDesired ==
    \A i \in 1..Len(changes.Update) :
        LET u == changes.Update[i]
        IN /\ Key(u.New) \in Keys(current) \cap Keys(desired)
           /\ u.Old = Lookup(current, Key(u.New))
           /\ ~EntriesDiffer(u.New, Lookup(desired, Key(u.New)))

\* C3 as stated: with one endpoint per key on both sides, a key of both
\* lists is in Update exactly when targets (as sets) or TTL differ, Old is
\* the current and New the desired entry, and lists that are equal as keyed
\* sets give empty Changes.
C3_UpdateExactlyWhenDiffers ==
    (phase = "planned" /\ UniqueKeys(desired)) =>
        /\ \A k \in Keys(current) \cap Keys(desired) :
              (k \in UpdatedKeys) <=> EntriesDiffer(Lookup(current, k), Lookup(desired, k))
        /\ UpdatePairsAreCurrentAndDesired
        /\ EqualAsKeyedSets => changes = EmptyChanges

\* C3 amended: the same for the keys whose desired entry is valid for its
\* record type; a key whose desired entry is invalid (a CNAME with several
\* targets) is dropped and never updated.
C3_UpdateExactlyWhenValidAndDiffers ==
    (phase = "planned" /\ UniqueKeys(desired)) =>
        /\ \A k \in Keys(current) \cap Keys(desired) :
              (k \in UpdatedKeys) <=>
                  /\ CheckEndpoint(Lookup(desired, k))
                  /\ EntriesDiffer(Lookup(current, k), Lookup(desired, k))
        /\ UpdatePairsAreCurrentAndDesired
        /\ EqualAsKeyedSets => changes = EmptyChanges

\* C3 witness: the TTL of one entry went from 300 to 600, targets unchanged,
\* and the Plan holds exactly that Update.
C3_Witness ==
    /\ phase = "planned"
    /\ UniqueKeys(desired)
    /\ Len(changes.Update) = 1
    /\ changes.Update[1].Old.RecordTTL = 300
    /\ changes.Update[1].New.RecordTTL = 600
    /\ Range(changes.Update[1].Old.Targets) = Range(changes.Update[1].New.Targets)
    /\ changes.Create = <<>> /\ changes.Delete = <<>>

\* The raw endpoints of a list that share key k.
RawOfKey(eps, k) == {j \in 1..Len(eps) : Key(eps[j]) = k}

FirstNonEmptyTTL(eps, k) ==
    LET set == {j \in RawOfKey(eps, k) : eps[j].RecordTTL # 0}
    IN IF set = {} THEN 0
       ELSE eps[CHOOSE j \in set : \A l \in set : j <= l].RecordTTL

\* The consolidation of the desired list holds one endpoint per key, with
\* the union of the targets and the first non-empty TTL of the key's inputs.
ConsolidatedRight(merged) ==
    /\ UniqueKeys(merged)
    /\ Keys(merged) = Keys(desired)
    /\ \A i \in 1..Len(merged) :
          LET k == Key(merged[i])
          IN /\ Range(merged[i].Targets) =
                    UNION {Range(desired[j].Targets) : j \in RawOfKey(desired, k)}
             /\ Len(merged[i].Targets) = Cardinality(Range(merged[i].Targets))
             /\ merged[i].RecordTTL = FirstNonEmptyTTL(desired, k)

CreatesOfKey(k) == {i \in 1..Len(changes.Create) : Key(changes.Create[i]) = k}

\* Every raw desired endpoint is valid on its own.
RawValid == \A j \in 1..Len(desired) : CheckEndpoint(desired[j])

\* C4 as stated: the consolidation of raw endpoints, each valid on its own,
\* is right, and with an empty current state the Plan holds exactly one
\* Create per key.
C4_MergeAndOneCreatePerKey ==
    (phase = "planned" /\ RawValid) =>
        /\ ConsolidatedRight(Consolidate(desired))
        /\ current = <<>> =>
              \A k \in Keys(desired) : Cardinality(CreatesOfKey(k)) = 1

\* C4 amended: with an empty current state the Plan holds exactly one
\* Create, the consolidated endpoint, per key whose consolidated endpoint is
\* valid for its record type, and none for the other keys.
C4_MergeAndOneCreatePerValidKey ==
    (phase = "planned" /\ RawValid) =>
        LET merged == Consolidate(desired)
        IN /\ ConsolidatedRight(merged)
           /\ current = <<>> =>
                 \A k \in Keys(desired) :
                    IF CheckEndpoint(Lookup(merged, k))
                    THEN /\ Cardinality(CreatesOfKey(k)) = 1
                         /\ \A i \in CreatesOfKey(k) : changes.Create[i] = Lookup(merged, k)
                    ELSE CreatesOfKey(k) = {}

\* C4 witness: two raw A endpoints of one key, targets 2.2.2.2 and 1.1.1.1,
\* the first without a TTL, became one Create with both targets and the TTL
\* of the second.
C4_Witness ==
    /\ phase = "planned"
    /\ current = <<>>
    /\ Len(desired) = 2
    /\ Key(desired[1]) = Key(desired[2])
    /\ desired[1].Targets = <<IP2>> /\ desired[1].RecordTTL = 0
    /\ desired[2].Targets = <<IP1>> /\ desired[2].RecordTTL = 600
    /\ Len(changes.Create) = 1
    /\ changes.Create[1].Targets = <<IP1, IP2>>
    /\ changes.Create[1].RecordTTL = 600

\* C5: no key is in more than one of Create, Delete and Update-New, the two
\* sides of an Update pair have one key, and a key of current alone is in
\* Delete and in neither Create nor Update.
C5_ChangesDisjoint ==
    phase = "planned" =>
        /\ CreatedKeys \cap DeletedKeys = {}
        /\ CreatedKeys \cap UpdatedKeys = {}
        /\ DeletedKeys \cap UpdatedKeys = {}
        /\ \A i \in 1..Len(changes.Update) :
              Key(changes.Update[i].Old) = Key(changes.Update[i].New)
        /\ \A k \in Keys(current) \ Keys(desired) :
              /\ k \in DeletedKeys
              /\ k \notin CreatedKeys
              /\ k \notin UpdatedKeys

\* C5 witness: a Plan that creates, updates and deletes at once.
C5_Witness ==
    /\ phase = "planned"
    /\ changes.Create # <<>>
    /\ changes.Update # <<>>
    /\ changes.Delete # <<>>
    /\ Keys(current) \ Keys(desired) # {}

(***************************************************************************)
(* Registry and Plan: the observed records carry ownership markers         *)
(***************************************************************************)
\* What the provider holds for one name: nothing, or an A record with no
\* marker, a marker of this owner, of another owner, or a malformed marker.
ObservedOf(name) ==
    LET rec == Endpoint(name, "A", "", 300, <<IP1>>, NoLabels)
        marker(text) == Endpoint(TxtPrefix \o name, "TXT", "", 300, <<text>>, NoLabels)
    IN {<<>>, <<rec>>,
        <<rec, marker(MarkerText(OwnerID))>>,
        <<rec, marker(MarkerText("other"))>>,
        <<marker(MarkerText("other")), rec>>,
        <<rec, marker(<<"garbage">>)>>}

RegDesiredUniverse ==
    {Endpoint(n, "A", "", 300, t, NoLabels) :
        n \in {foo_example_com, bar_example_com}, t \in {<<IP1>>, <<IP2>>}}

RegistryInit ==
    /\ RestIdle
    /\ AzureIdle
    /\ CoreDNSIdle
    /\ PdnsIdle
    /\ phase = "observe"
    /\ observed \in {a \o b : a \in ObservedOf(foo_example_com),
                              b \in ObservedOf(bar_example_com)}
    /\ current = <<>>
    /\ desired \in KeyedSeqUpTo(RegDesiredUniverse, MaxDesired)
    /\ changes = EmptyChanges

\* The controller reads the current records through the registry.
ReadRecords ==
    /\ phase = "observe"
    /\ current' = RegistryRecords(observed)
    /\ phase' = "input"
    /\ UNCHANGED <<restVars, observed, desired, changes, azVars, cdVars, pdVars>>

RegistryNext == ReadRecords \/ RunPlan

SpecRegistry == RegistryInit /\ [][RegistryNext]_vars

\* An observed record whose marker names another owner than the configured.
ForeignRecords ==
    {i \in 1..Len(observed) :
        /\ ~(observed[i].RecordType = "TXT")
        /\ \E j \in 1..Len(observed), o \in {"other"} :
              /\ observed[j].RecordType = "TXT"
              /\ observed[j].DNSName = TxtPrefix \o observed[i].DNSName
              /\ observed[j].Targets = <<MarkerText(o)>>}

\* C6: a record whose ownership marker names another owner is never in
\* Delete and never the Old side of an Update, whatever is desired.
C6_ForeignNeverDeletedOrUpdated ==
    phase = "planned" =>
        \A i \in ForeignRecords :
            /\ Key(observed[i]) \notin DeletedKeys
            /\ Key(observed[i]) \notin {Key(changes.Update[u].Old) : u \in 1..Len(changes.Update)}

\* C6 witness: a record of another owner is absent from desired while a
\* record of this owner is deleted by the same Plan.
C6_Witness ==
    /\ phase = "planned"
    /\ \E i \in ForeignRecords : Key(observed[i]) \notin Keys(desired)
    /\ changes.Delete # <<>>

(***************************************************************************)
(* The Azure Private DNS provider: Records and ApplyChanges against a set  *)
(* of zones and a record store, with a clock for the zones cache           *)
(***************************************************************************)
\* The filter settings the provider is run with: the domain filter, the
\* zone-name filter and the zone-ID filter.
AzFilterUniverse ==
    {<<{}, {}, {}>>,
     <<{foo_example_com}, {}, {}>>,
     <<{example_com}, {}, {"z2"}>>,
     <<{example_com}, {example_com}, {"z2"}>>,
     <<{foo_example_com}, {example_com}, {}>>}

AzCfgUniverse ==
    {[dryRun |-> d, domainFilter |-> f[1], zoneNameFilter |-> f[2], zoneIDFilter |-> f[3],
      cacheDuration |-> c] :
        d \in BOOLEAN, f \in AzFilterUniverse, c \in {0, MaxDuration}}

\* The zones of the resource group, as the zones client lists them.
AzRemoteUniverse ==
    {<<[Name |-> example_com, ID |-> "z1"], [Name |-> other_org, ID |-> "z2"]>>,
     <<[Name |-> foo_example_com, ID |-> "z2"], [Name |-> example_com, ID |-> "z1"]>>}

AzSeedStore ==
    {[zone |-> example_com, type |-> "A", name |-> <<"foo">>, ttl |-> 300, targets |-> <<IP1>>],
     [zone |-> other_org, type |-> "CNAME", name |-> <<"foo">>, ttl |-> 300, targets |-> <<Host1>>]}

AzChangesUniverse ==
    LET ep(n, t, ttl, tg) == Endpoint(n, t, "", ttl, tg, NoLabels)
    IN {[Create |-> <<ep(bar_example_com, "A", 0, <<IP1>>)>>,
         Update |-> <<>>,
         Delete |-> <<ep(foo_example_com, "A", 300, <<IP1>>)>>],
        [Create |-> <<ep(fooexample_com, "A", 300, <<IP1>>),
                      ep(bar_example_com, "SRV", 300, <<Host1>>)>>,
         Update |-> <<[Old |-> ep(foo_example_com, "A", 300, <<IP1>>),
                       New |-> ep(foo_example_com, "A", 600, <<IP2>>)]>>,
         Delete |-> <<ep(foo_other_org, "CNAME", 300, <<Host1>>)>>]}

AzNoCall ==
    [op |-> "none", seq |-> 0, listed |-> FALSE, zonesErr |-> FALSE, zones |-> <<>>,
     changes |-> EmptyChanges, calls |-> <<>>, callFailed |-> FALSE, result |-> "nil",
     records |-> {}]

AzureInit ==
    /\ RestIdle
    /\ PlanIdle
    /\ CoreDNSIdle
    /\ PdnsIdle
    /\ azCfg \in AzCfgUniverse
    /\ azNow = MaxDuration
    /\ azCache = [timestamp |-> 0, duration |-> azCfg.cacheDuration, zones |-> <<>>]
    /\ azRemote \in AzRemoteUniverse
    /\ azStore = AzSeedStore
    /\ azLast = AzNoCall
    /\ azRefresh = <<>>
    /\ azReader = <<>>

\* AzurePrivateDNSProvider.ApplyChanges
AzureApplyChanges ==
    \E ch \in AzChangesUniverse,
       pagesOk \in IF zonesCacheExpired(azCache, azNow) THEN BOOLEAN ELSE {TRUE} :
        LET z == zones(azCfg, azCache, azNow, azRemote, pagesOk)
            m == mapChanges(z.zones, ch)
        IN \E dOrder \in Orders(MapKeys(m.deleted)), uOrder \in Orders(MapKeys(m.updated)) :
            LET calls == IF z.err THEN <<>>
                         ELSE azureApplyCalls(azCfg, dOrder, uOrder, m)
            IN \E failed \in SUBSET (1..Len(calls)) :
                /\ azCache' = z.cache
                /\ azStore' = recordSetsClientCalls(azStore, calls, failed, 1)
                /\ azLast' = [op |-> "ApplyChanges", seq |-> 1 - azLast.seq,
                              listed |-> z.listed, zonesErr |-> z.err, zones |-> z.zones,
                              changes |-> ch, calls |-> calls,
                              callFailed |-> failed # {},
                              result |-> IF z.err THEN "error" ELSE "nil",
                              records |-> {}]
                /\ UNCHANGED <<restVars, azCfg, azNow, azRemote, azRefresh, azReader, planVars, cdVars, pdVars>>

\* AzurePrivateDNSProvider.Records; a failed page of record sets is a soft
\* error.
AzureRecords ==
    \E pagesOk \in IF zonesCacheExpired(azCache, azNow) THEN BOOLEAN ELSE {TRUE},
       recordPagesOk \in BOOLEAN :
        LET z == zones(azCfg, azCache, azNow, azRemote, pagesOk)
            failed == ~z.err /\ z.zones # <<>> /\ ~recordPagesOk
        IN /\ azCache' = z.cache
           /\ azLast' = [op |-> "Records", seq |-> 1 - azLast.seq,
                         listed |-> z.listed, zonesErr |-> z.err, zones |-> z.zones,
                         changes |-> EmptyChanges, calls |-> <<>>, callFailed |-> FALSE,
                         result |-> IF z.err THEN "error"
                                    ELSE IF failed THEN "softerror" ELSE "nil",
                         records |-> IF z.err \/ failed THEN {}
                                     ELSE azureRecords(azCfg, z.zones, azStore)]
           /\ UNCHANGED <<restVars, azCfg, azNow, azRemote, azStore, azRefresh, azReader, planVars, cdVars, pdVars>>

\* Time passes.
AzureTick ==
    /\ azNow < MaxNow
    /\ azNow' = azNow + 1
    /\ UNCHANGED <<restVars, azCfg, azCache, azRemote, azStore, azLast, azRefresh, azReader, planVars,
                   cdVars, pdVars>>

\* Somebody adds or removes a zone of the resource group.
AzureZonesChange ==
    /\ azRemote' \in AzRemoteUniverse \ {azRemote}
    /\ UNCHANGED <<restVars, azCfg, azNow, azCache, azStore, azLast, azRefresh, azReader, planVars,
                   cdVars, pdVars>>

AzureNext == AzureApplyChanges \/ AzureRecords \/ AzureTick \/ AzureZonesChange

SpecAzure == AzureInit /\ [][AzureNext]_vars

\* The Delete and CreateOrUpdate calls that ApplyChanges would make for the
\* last Changes value outside dry-run mode.
AzLiveCalls ==
    LET m == mapChanges(azLast.zones, azLast.changes)
        live == [azCfg EXCEPT !.dryRun = FALSE]
    IN {c \in UNION {Range(deleteRecordsOfZoneAlways(azCfg, z, m.deleted[z]))
                     \cup Range(updateRecordsOfZone(live, z, m.updated[z])) :
                        z \in ZoneNames(azLast.zones)} : TRUE}

\* C1: ApplyChanges with dryRun=true makes no Delete and no CreateOrUpdate
\* call, whatever the Changes and the zones are, so the record store is the
\* same before and after the call, and it returns nil (the zone list being
\* there, that is, the listing of the zones not having failed).
C1_AzureDryRunNoCalls ==
    [][(azCfg.dryRun /\ azLast'.seq # azLast.seq /\ azLast'.op = "ApplyChanges") =>
          /\ azLast'.calls = <<>>
          /\ azStore' = azStore
          /\ ~azLast'.zonesErr => azLast'.result = "nil"]_vars

\* C1 witness: a dry run of ApplyChanges has returned nil for Changes that
\* make Delete or CreateOrUpdate calls outside dry-run mode.
C1_Witness ==
    /\ azCfg.dryRun
    /\ azLast.op = "ApplyChanges"
    /\ azLast.result = "nil"
    /\ azLast.calls = <<>>
    /\ \E c, d \in AzLiveCalls : c.op = "Delete" /\ d.op = "CreateOrUpdate"
    /\ azStore = AzSeedStore

\* C9: every zone that zones() returns passes the zone-ID filter.
C9_ZonesPassZoneIDFilter ==
    (azLast.op # "none" /\ ~azLast.zonesErr) =>
        \A i \in 1..Len(azLast.zones) :
            ZoneIDFilterMatch(azCfg.zoneIDFilter, azLast.zones[i].ID)

\* C10: zones() returns the cached list without calling the zones client if
\* and only if the cache is not expired, the cache being expired when
\* now - timestamp >= duration; with duration 0 every call lists the zones;
\* after a successful listing the cache holds the list that was returned.
C10_ZonesCacheUsedIffFresh ==
    [][azLast'.seq # azLast.seq =>
          LET expired == azNow - azCache.timestamp >= azCfg.cacheDuration
          IN /\ azLast'.listed <=> expired
             /\ ~azLast'.listed =>
                    /\ azLast'.zones = azCache.zones
                    /\ ~azLast'.zonesErr
                    /\ azCache' = azCache
             /\ azCfg.cacheDuration = 0 => azLast'.listed
             /\ (azLast'.listed /\ ~azLast'.zonesErr) =>
                    /\ azCache'.zones = azLast'.zones
                    /\ azCache'.timestamp = azNow]_vars

\* C10 witness: the zones of the resource group have changed while the cache
\* is fresh, and zones() has returned the cached list, not the changed one.
C10_Witness ==
    /\ azLast.op # "none"
    /\ ~azLast.listed
    /\ azCfg.cacheDuration > 0
    /\ azLast.zones = azCache.zones
    /\ azLast.zones # <<>>
    /\ \E i \in 1..Len(azLast.zones) :
          azLast.zones[i].Name \notin ZoneNames(azRemote)

AllEndpoints(ch) == ch.Create \o UpdateNew(ch) \o ch.Delete

\* The record types for which newRecordSet builds a record set.
AzSupportedTypes == {"A", "AAAA", "CNAME", "MX", "TXT"}

\* The DNS name of a record set of the store, or of a call.
AzNameOf(r) == formatAzureDNSName(r.name, r.zone)

\* C13: ApplyChanges makes a Delete or CreateOrUpdate call only for
\* endpoints whose DNSName matches the domain filter, also in a zone that
\* the zone-name filter selected; the record sets of names outside the
\* domain filter are the same after the call as before.
C13_CallsWithinDomainFilter ==
    [][(azLast'.seq # azLast.seq /\ azLast'.op = "ApplyChanges") =>
          /\ \A c \in Range(azLast'.calls) :
                /\ DomainFilterMatch(azCfg.domainFilter, AzNameOf(c))
                /\ \E i \in 1..Len(AllEndpoints(azLast'.changes)) :
                      /\ AllEndpoints(azLast'.changes)[i].DNSName = AzNameOf(c)
                      /\ DomainFilterMatch(azCfg.domainFilter,
                                           AllEndpoints(azLast'.changes)[i].DNSName)
          /\ {r \in azStore' : ~DomainFilterMatch(azCfg.domainFilter, AzNameOf(r))}
                = {r \in azStore : ~DomainFilterMatch(azCfg.domainFilter, AzNameOf(r))}
      ]_vars

\* C13 witness: in a zone that only the zone-name filter selected,
\* ApplyChanges has made a call for an endpoint within the domain filter and
\* none for an endpoint of the zone outside it.
C13_Witness ==
    /\ azLast.op = "ApplyChanges"
    /\ azLast.calls # <<>>
    /\ \E i \in 1..Len(azLast.zones) :
          LET z == azLast.zones[i].Name
          IN /\ ~DomainFilterMatch(azCfg.domainFilter, z)
             /\ DomainFilterMatch(azCfg.zoneNameFilter, z) /\ azCfg.zoneNameFilter # {}
             /\ \E c \in Range(azLast.calls) : c.zone = z
             /\ \E k \in 1..Len(azLast.changes.Create) :
                   LET e == azLast.changes.Create[k]
                   IN /\ LabelSuffix(e.DNSName, z)
                      /\ ~DomainFilterMatch(azCfg.domainFilter, e.DNSName)
                      /\ e.RecordType \in AzSupportedTypes
                      /\ \A c \in Range(azLast.calls) : AzNameOf(c) # e.DNSName

\* C16: in ApplyChanges every Delete call of the Delete set, over all
\* zones, is made before the first CreateOrUpdate call.
C16_DeletesBeforeCreateOrUpdate ==
    [][(azLast'.seq # azLast.seq /\ azLast'.op = "ApplyChanges") =>
          \A i, j \in 1..Len(azLast'.calls) :
              (azLast'.calls[i].op = "Delete" /\ azLast'.calls[j].op = "CreateOrUpdate")
                  => i < j]_vars

\* C16 witness: ApplyChanges has made a Delete call in one zone and a
\* CreateOrUpdate call in another.
C16_Witness ==
    /\ azLast.op = "ApplyChanges"
    /\ \E i, j \in 1..Len(azLast.calls) :
          /\ azLast.calls[i].op = "Delete"
          /\ azLast.calls[j].op = "CreateOrUpdate"
          /\ azLast.calls[i].zone # azLast.calls[j].zone

\* The last ApplyChanges came to an endpoint for which newRecordSet gives an
\* error.
AzRecordSetFailed ==
    \E i \in 1..Len(azLast.changes.Create \o UpdateNew(azLast.changes)) :
        LET e == (azLast.changes.Create \o UpdateNew(azLast.changes))[i]
        IN /\ \E z \in ZoneNames(azLast.zones) : LabelSuffix(e.DNSName, z)
           /\ DomainFilterMatch(azCfg.domainFilter, e.DNSName)
           /\ ~azCfg.dryRun
           /\ e.RecordType \notin AzSupportedTypes

\* C18: ApplyChanges returns an error when the operation failed: when the
\* zone listing, a Delete call, a CreateOrUpdate call or the construction of
\* a record set fails, the error returned is not nil.
C18_ApplyReturnsErrorOnFailure ==
    (azLast.op = "ApplyChanges"
        /\ (azLast.zonesErr \/ azLast.callFailed \/ AzRecordSetFailed))
    => azLast.result = "error"

\* C17: a Records call that fails because a list call failed, be it a page
\* of zones or a page of record sets, returns a soft error and no
\* endpoints.
C17_RecordsListFailureIsSoft ==
    (azLast.op = "Records" /\ (azLast.zonesErr \/ azLast.result # "nil")) =>
        /\ azLast.result = "softerror"
        /\ azLast.records = {}

(***************************************************************************)
(* The Azure provider: zones() listing page by page, next to a reader of   *)
(* the zones cache                                                         *)
(***************************************************************************)
\* The pages of the listing: a zone a page.
AzPages(remote) == [i \in 1..Len(remote) |-> <<remote[i]>>]

\* The list a complete listing of the zones gives.
AzCompleteList(cfg, remote) ==
    SelectIdx(remote, {i \in 1..Len(remote) : zoneSelected(cfg, remote[i])}, 1)

AzNoRead == [n |-> 0, seen |-> <<>>, during |-> FALSE]

AzureZonesInit ==
    /\ RestIdle
    /\ PlanIdle
    /\ CoreDNSIdle
    /\ PdnsIdle
    /\ azCfg \in {c \in AzCfgUniverse : ~c.dryRun}
    /\ azNow = 0
    /\ azCache = [timestamp |-> 0, duration |-> azCfg.cacheDuration, zones |-> <<>>]
    /\ azRemote \in AzRemoteUniverse
    /\ azStore = {}
    /\ azLast = <<>>
    /\ azRefresh = zonesIdle
    /\ azReader = AzNoRead

\* A call of zones() finds the cache expired and makes the pager.
AzureZonesBegin ==
    /\ azRefresh.pc = "idle"
    /\ zonesCacheExpired(azCache, azNow)
    /\ azRefresh' = [pc |-> "paging", page |-> 1, local |-> <<>>, err |-> FALSE,
                     old |-> zonesCacheGet(azCache)]
    /\ UNCHANGED <<restVars, azCfg, azNow, azCache, azRemote, azStore, azLast, azReader, planVars,
                   cdVars, pdVars>>

\* pager.More() holds: the next page is fetched, or the fetch fails.
AzureZonesNextPage ==
    /\ azRefresh.pc = "paging"
    /\ azRefresh.page <= Len(azRemote)
    /\ \E ok \in BOOLEAN :
        \E r \in {zonesNextPage(azCfg, azRefresh, azCache, azNow,
                                AzPages(azRemote)[azRefresh.page], ok)} :
            /\ azRefresh' = r.rf
            /\ azCache' = r.cache
    /\ UNCHANGED <<restVars, azCfg, azNow, azRemote, azStore, azLast, azReader, planVars, cdVars, pdVars>>

\* pager.More() holds no longer: the cache is reset to the local list.
AzureZonesReset ==
    /\ azRefresh.pc = "paging"
    /\ azRefresh.page > Len(azRemote)
    /\ azCache' = zonesCacheReset(azCache, azRefresh.local, azNow)
    /\ azRefresh' = zonesIdle
    /\ UNCHANGED <<restVars, azCfg, azNow, azRemote, azStore, azLast, azReader, planVars, cdVars, pdVars>>

\* A reader gets the value of the cache, whether a listing is under way or
\* not.
AzureCacheGet ==
    /\ azReader' = [n |-> 1 - azReader.n, seen |-> zonesCacheGet(azCache),
                    during |-> azRefresh.pc = "paging"]
    /\ UNCHANGED <<restVars, azCfg, azNow, azCache, azRemote, azStore, azLast, azRefresh, planVars,
                   cdVars, pdVars>>

\* The zones of the resource group change between two listings.
AzureZonesChangeBetween ==
    /\ azRefresh.pc = "idle"
    /\ AzureZonesChange

AzureZonesNext ==
    \/ AzureZonesBegin
    \/ AzureZonesNextPage
    \/ AzureZonesReset
    \/ AzureCacheGet
    \/ AzureTick
    \/ AzureZonesChangeBetween

SpecAzureZones == AzureZonesInit /\ [][AzureZonesNext]_vars

\* The lists that a complete listing can give, and the list of a cache that
\* was never reset.
AzCompleteLists == {<<>>} \cup {AzCompleteList(azCfg, r) : r \in AzRemoteUniverse}

\* C11: the zones cache never holds a half-populated list.  zones() writes
\* the cache only when every page was fetched without error, and then the
\* complete new list; a failed page leaves value and timestamp as they are;
\* a reader next to a listing gets the complete previous list or the
\* complete new one.
C11_CacheNeverHalfPopulated ==
    [][/\ azCache' # azCache =>
             /\ azRefresh.pc = "paging"
             /\ azRefresh.page > Len(azRemote)
             /\ azCache'.zones = AzCompleteList(azCfg, azRemote)
       /\ (azRefresh'.err /\ azRefresh # azRefresh') => azCache' = azCache
       /\ azReader' # azReader =>
             /\ azReader'.seen \in AzCompleteLists
             /\ azRefresh.pc = "paging" => azReader'.seen = azRefresh.old
             /\ azRefresh.pc = "idle" => azReader'.seen = azCache.zones
      ]_vars

\* C11 witness: a reader got the previous list, which is not empty, while a
\* listing had fetched pages of a different list.
C11_Witness ==
    /\ azReader.during
    /\ azReader.seen # <<>>
    /\ azRefresh.pc = "paging"
    /\ azRefresh.local # <<>>
    /\ azReader.seen = azRefresh.old
    /\ Len(azRefresh.local) < Len(AzCompleteList(azCfg, azRemote))
    /\ azRefresh.local \notin AzCompleteLists

(***************************************************************************)
(* The CoreDNS provider: ApplyChanges against an etcd store                *)
(***************************************************************************)
skydns == <<Slash, "skydns", Slash>>

foobar_example_com == <<"foo", "bar", Dot, "example", Dot, "com">>

CdCfgUniverse ==
    [dryRun : BOOLEAN, domainFilter : {{}, {example_com}}, coreDNSPrefix : {skydns}]

CdService(cfg, prefix, dnsName, host, text) ==
    [Host |-> host, Text |-> text, Key |-> etcdKeyFor(cfg, prefix \o <<Dot>> \o dnsName),
     TargetStrip |-> 1, TTL |-> 300]

\* What etcd holds at the start: a service each for foo.example.com,
\* foobar.example.com and foo.other.org.
CdSeedStore(cfg) ==
    LET svcs == {CdService(cfg, <<"p1">>, foo_example_com, IP1, <<>>),
                 CdService(cfg, <<"p3">>, foobar_example_com, IP1, <<>>),
                 CdService(cfg, <<"p2">>, foo_other_org, IP1, <<>>)}
    IN [k \in {s.Key : s \in svcs} |-> CHOOSE s \in svcs : s.Key = k]

CdRandomUniverse == {<<"r1">>, <<"r2">>}

\* The Labels of an endpoint that Records has read for the target IP1 under
\* the prefix p, and of an endpoint that comes from a source.
CdReadLabels(p) ==
    SetLabel(SetLabel(SetLabel(NoLabels, originalTextLabel, <<>>), randomPrefixLabel, p), IP1, p)

CdSourceLabels == SetLabel(NoLabels, <<"resource">>, <<"ingress/default/foo">>)

CdChangesUniverse ==
    LET new(n, t, tg) == Endpoint(n, t, "", 300, tg, CdSourceLabels)
        old(n, p) == Endpoint(n, "A", "", 300, <<IP1>>, CdReadLabels(p))
    IN {[Create |-> <<new(foo_example_com, "A", <<IP1, IP2>>)>>,
         Update |-> <<>>,
         Delete |-> <<old(foo_other_org, <<"p2">>)>>],
        [Create |-> <<new(foo_example_com, "A", <<IP2>>),
                      new(foo_example_com, "TXT", <<<<"tag">>>>)>>,
         Update |-> <<>>,
         Delete |-> <<>>],
        [Create |-> <<>>,
         Update |-> <<[Old |-> old(foo_example_com, <<"p1">>),
                       New |-> new(foo_example_com, "A", <<IP2>>)]>>,
         Delete |-> <<>>],
        [Create |-> <<new(foo_other_org, "A", <<IP2>>)>>,
         Update |-> <<[Old |-> old(foo_example_com, <<"p1">>),
                       New |-> new(foo_example_com, "A", <<IP1, IP2>>)]>>,
         Delete |-> <<>>],
        [Create |-> <<>>,
         Update |-> <<>>,
         Delete |-> <<old(foo_example_com, <<"p1">>)>>],
        [Create |-> <<new(foo_example_com, "CNAME", <<Host1>>)>>,
         Update |-> <<>>,
         Delete |-> <<Endpoint(foo_example_com, "A", "", 300, <<IP1>>, NoLabels)>>]}

\* The labels of the endpoints of a Changes value that name a target.
CdTargetLabels(ch) ==
    {l \in UNION ({DOMAIN ch.Create[i].Labels : i \in 1..Len(ch.Create)}
                  \cup {DOMAIN ch.Update[i].Old.Labels : i \in 1..Len(ch.Update)}) :
        ~shouldSkipLabel(l)}
    \cup UNION ({Range(ch.Create[i].Targets) : i \in 1..Len(ch.Create)}
                \cup {Range(ch.Update[i].New.Targets) : i \in 1..Len(ch.Update)})

CdNoCall ==
    [op |-> "none", n |-> 0, changes |-> EmptyChanges, after |-> EmptyChanges,
     calls |-> <<>>, result |-> "nil", records |-> <<>>]

CoreDNSInit ==
    /\ RestIdle
    /\ PlanIdle
    /\ AzureIdle
    /\ PdnsIdle
    /\ cdCfg \in CdCfgUniverse
    /\ cdStore = CdSeedStore(cdCfg)
    /\ cdLast = CdNoCall

\* coreDNSProvider.ApplyChanges
CoreDNSApplyChanges ==
    /\ cdLast.n < MaxApply
    /\ \E ch \in CdChangesUniverse, failAt \in 0..MaxFailAt,
          rnd \in [1..MaxRandom -> CdRandomUniverse] :
        \E order \in Orders(DOMAIN groupEndpoints(ch)),
           labelOrder \in Orders(CdTargetLabels(ch)) :
            LET st == coreDNSApplyChanges(cdCfg, cdStore, ch, order, rnd, labelOrder, failAt)
            IN /\ cdStore' = st.store
               /\ cdLast' = [op |-> "ApplyChanges", n |-> cdLast.n + 1, changes |-> ch,
                             after |-> changesAfter(ch, st.heap), calls |-> st.calls,
                             result |-> IF st.err THEN "error" ELSE "nil",
                             records |-> <<>>]
               /\ UNCHANGED <<restVars, cdCfg, planVars, azVars, pdVars>>

CoreDNSNext == CoreDNSApplyChanges

SpecCoreDNS == CoreDNSInit /\ [][CoreDNSNext]_vars

\* C2: ApplyChanges with dryRun=true calls neither SaveService nor
\* DeleteService, the removal of the keys of outdated targets included, so
\* the etcd store is unchanged, and it returns nil.
C2_CoreDNSDryRunNoCalls ==
    [][(cdCfg.dryRun /\ cdLast'.n # cdLast.n) =>
          /\ cdLast'.calls = <<>>
          /\ cdStore' = cdStore
          /\ cdLast'.result = "nil"]_vars

\* The calls that ApplyChanges makes outside dry-run mode for the last
\* Changes value when no call fails, for some order of the maps.
CdLiveCalls ==
    UNION {Range(coreDNSApplyChanges([cdCfg EXCEPT !.dryRun = FALSE], cdStore, cdLast.changes,
                                     order, <<<<"r1">>>>, labelOrder, 0).calls) :
             order \in Orders(DOMAIN groupEndpoints(cdLast.changes)),
             labelOrder \in Orders(CdTargetLabels(cdLast.changes))}

\* C2 witness: a dry run has returned nil for an Update whose old target is
\* outdated, where a live run saves a service and deletes the outdated key.
C2_Witness ==
    /\ cdCfg.dryRun
    /\ cdLast.op = "ApplyChanges"
    /\ cdLast.result = "nil"
    /\ cdLast.calls = <<>>
    /\ cdLast.changes.Update # <<>>
    /\ cdLast.changes.Delete = <<>>
    /\ \E c, d \in CdLiveCalls : c.op = "SaveService" /\ d.op = "DeleteService"
    /\ cdStore = CdSeedStore(cdCfg)

\* The key that deleteEndpoints deletes for an endpoint.
CdDeleteKey(ep) ==
    etcdKeyFor(cdCfg, IF LabelOf(ep.Labels, randomPrefixLabel) # <<>>
                      THEN LabelOf(ep.Labels, randomPrefixLabel) \o <<Dot>> \o ep.DNSName
                      ELSE ep.DNSName)

\* C15: when the Changes hold a Delete and a Create for one DNS name, the
\* DeleteService call for the deleted endpoint is made before any
\* SaveService call for the created endpoint of the name.
C15_CoreDNSDeleteBeforeCreate ==
    cdLast.op = "ApplyChanges" =>
        \A i \in 1..Len(cdLast.changes.Delete), j \in 1..Len(cdLast.changes.Create) :
            cdLast.changes.Delete[i].DNSName = cdLast.changes.Create[j].DNSName =>
                \A s \in 1..Len(cdLast.calls) :
                    (/\ cdLast.calls[s].op = "SaveService"
                     /\ HasPrefix(cdLast.calls[s].key,
                                  etcdKeyFor(cdCfg, cdLast.changes.Create[j].DNSName)
                                      \o <<Slash>>))
                    => \E d \in 1..(s - 1) :
                          /\ cdLast.calls[d].op = "DeleteService"
                          /\ cdLast.calls[d].key = CdDeleteKey(cdLast.changes.Delete[i])

\* C20: ApplyChanges leaves the endpoints of its Changes as they are: the
\* Labels of every Create, Update.Old and Update.New endpoint are after the
\* call what they were before it, so no label written for New shows in Old.
C20_ApplyChangesLeavesLabels ==
    cdLast.op = "ApplyChanges" =>
        /\ \A i \in 1..Len(cdLast.changes.Create) :
               cdLast.after.Create[i].Labels = cdLast.changes.Create[i].Labels
        /\ \A i \in 1..Len(cdLast.changes.Update) :
               /\ cdLast.after.Update[i].Old.Labels = cdLast.changes.Update[i].Old.Labels
               /\ cdLast.after.Update[i].New.Labels = cdLast.changes.Update[i].New.Labels

(***************************************************************************)
(* The CoreDNS provider: Records next to ApplyChanges                      *)
(***************************************************************************)
\* strings.TrimPrefix
TrimPrefix(s, t) == IF HasPrefix(s, t) THEN SubSeq(s, Len(t) + 1, Len(s)) ELSE s

\* guessRecordType
guessRecordType(target) == IF IsIP(target) THEN "A" ELSE "CNAME"

\* findEp: the first endpoint of the slice with the DNS name, 0 when there is
\* none.  The slice holds pointers: result lists places of eps.
findEp(eps, result, dnsName) ==
    LET hits == {i \in 1..Len(result) : eps[result[i]].DNSName = dnsName}
    IN IF hits = {} THEN 0
       ELSE result[CHOOSE i \in hits : \A j \in hits : i <= j]

\* coreDNSProvider.Records, the body of the loop for one service: acc holds
\* the endpoints made so far (eps) and the result slice, whose members point
\* to them.
recordsOfService(cfg, acc, service) ==
    LET domains == Reverse(Split(TrimPrefix(service.Key, cfg.coreDNSPrefix), Slash))
        dnsName == Join(SubSeq(domains, service.TargetStrip + 1, Len(domains)), Dot)
        prefix == Join(SubSeq(domains, 1, service.TargetStrip), Dot)
        found == findEp(acc.eps, acc.result, dnsName)
        at == IF found # 0 THEN found ELSE Len(acc.eps) + 1
        ep == IF found # 0
              THEN [acc.eps[found] EXCEPT !.Targets = Append(@, service.Host)]
              ELSE NewEndpointWithTTL(dnsName, guessRecordType(service.Host), service.TTL,
                                      <<service.Host>>)
        labelled == [ep EXCEPT !.Labels =
                        SetLabel(SetLabel(SetLabel(@, originalTextLabel, service.Text),
                                          randomPrefixLabel, prefix),
                                 service.Host, prefix)]
        withHost == IF service.Host = <<>> THEN acc
                    ELSE [eps |-> IF found # 0 THEN [acc.eps EXCEPT ![at] = labelled]
                                  ELSE Append(acc.eps, labelled),
                          result |-> Append(acc.result, at)]
        txt == [NewEndpointWithTTL(dnsName, "TXT", 0, <<service.Text>>)
                   EXCEPT !.Labels = SetLabel(@, randomPrefixLabel, prefix)]
    IN IF ~DomainFilterMatch(cfg.domainFilter, dnsName) THEN acc
       ELSE IF service.Text = <<>> THEN withHost
       ELSE [eps |-> Append(withHost.eps, txt),
             result |-> Append(withHost.result, Len(withHost.eps) + 1)]

RECURSIVE recordsLoop(_, _, _, _)
recordsLoop(cfg, acc, services, i) ==
    IF i > Len(services) THEN acc
    ELSE recordsLoop(cfg, recordsOfService(cfg, acc, services[i]), services, i + 1)

\* coreDNSProvider.Records on the services that GetServices has returned:
\* the endpoints the members of the result slice point to.
coreDNSRecords(cfg, services) ==
    LET done == recordsLoop(cfg, [eps |-> <<>>, result |-> <<>>], services, 1)
    IN [i \in 1..Len(done.result) |-> done.eps[done.result[i]]]

\* coreDNSProvider.Records: GetServices returns the services of the store
\* in the order of its choice, or an error.
CoreDNSRecords ==
    /\ cdLast.n < MaxApply
    /\ \E ok \in BOOLEAN, order \in Orders(DOMAIN cdStore) :
          cdLast' = [op |-> "Records", n |-> cdLast.n + 1, changes |-> EmptyChanges,
                     after |-> EmptyChanges, calls |-> <<>>,
                     result |-> IF ok THEN "nil" ELSE "error",
                     records |-> IF ok
                                 THEN coreDNSRecords(cdCfg,
                                          [i \in 1..Len(order) |-> cdStore[order[i]]])
                                 ELSE <<>>]
    /\ UNCHANGED <<restVars, cdCfg, cdStore, planVars, azVars, pdVars>>

CoreDNSRecordsNext == CoreDNSApplyChanges \/ CoreDNSRecords

SpecCoreDNSRecords == CoreDNSInit /\ [][CoreDNSRecordsNext]_vars

\* The services of the store that Records reads for a DNS name.
CdServicesOf(dnsName) ==
    {s \in {cdStore[k] : k \in DOMAIN cdStore} :
        LET domains == Reverse(Split(TrimPrefix(s.Key, cdCfg.coreDNSPrefix), Slash))
        IN Join(SubSeq(domains, s.TargetStrip + 1, Len(domains)), Dot) = dnsName}

\* C19: Records returns at most one endpoint for a DNS name and record type;
\* the hosts of all services of a DNS name are targets of one endpoint that
\* occurs once in the result, and every target conforms to the record type
\* of its endpoint: an IP address for A, a host name for CNAME, a text of a
\* service for TXT.
C19_RecordsOneEndpointPerNameAndType ==
    (cdLast.op = "Records" /\ cdLast.result = "nil") =>
        LET r == cdLast.records
        IN /\ \A i, j \in 1..Len(r) :
                  (r[i].DNSName = r[j].DNSName /\ r[i].RecordType = r[j].RecordType)
                  => i = j
           /\ \A i \in 1..Len(r) :
                  r[i].RecordType # "TXT" =>
                      \A s \in CdServicesOf(r[i].DNSName) :
                          s.Host # <<>> => s.Host \in Range(r[i].Targets)
           /\ \A i \in 1..Len(r) : \A k \in 1..Len(r[i].Targets) :
                  LET t == r[i].Targets[k]
                  IN /\ r[i].RecordType = "A" => IsIP(t)
                     /\ r[i].RecordType = "CNAME" => ~IsIP(t)
                     /\ r[i].RecordType = "TXT" =>
                            \E s \in CdServicesOf(r[i].DNSName) : s.Text = t

(***************************************************************************)
(* The PowerDNS provider: ConvertEndpointsToZones on its own               *)
(***************************************************************************)
example_com_ == example_com \o <<Dot>>
foo_example_com_ == foo_example_com \o <<Dot>>
other_org_ == other_org \o <<Dot>>

PdZone(name, rrsets) == [Id |-> name, Name |-> name, Rrsets |-> rrsets]

PdCfgUniverse == [domainFilter : {{}, {example_com}}, domainExclude : {{}}]

\* The domain filter example.com that excludes foo.example.com.
PdCfgExcluding == [domainFilter |-> {example_com}, domainExclude |-> {foo_example_com}]

\* The zones of the server, in the order in which it lists them.
PdZonesUniverse ==
    {<<PdZone(example_com_, <<>>), PdZone(foo_example_com_, <<>>), PdZone(other_org_, <<>>)>>,
     <<PdZone(other_org_, <<>>), PdZone(example_com_, <<>>)>>}

PdEndpointUniverse ==
    {Endpoint(foo_example_com, "A", "", 0, <<IP1>>, NoLabels),
     Endpoint(foo_example_com, "CNAME", "", 300, <<Host1>>, NoLabels),
     Endpoint(bar_example_com, "A", "", 300, <<IP1, IP2>>, NoLabels),
     Endpoint(fooexample_com, "A", "", 300, <<IP1>>, NoLabels),
     Endpoint(example_com, "CNAME", "", 600, <<Host2>>, NoLabels),
     Endpoint(foo_other_org, "A", "", 300, <<IP2>>, NoLabels),
     EndpointWithHighTTL(Endpoint(bar_example_com, "TXT", "", 0, <<<<"tag">>>>, NoLabels), 1),
     EndpointWithHighTTL(Endpoint(fooexample_com, "TXT", "", 0, <<<<"tag">>>>, NoLabels), 1)}

PdNoCall ==
    [op |-> "none", eps |-> <<>>, changetype |-> "", err |-> FALSE, errKind |-> "nil",
     zoneList |-> <<>>, interrupted |-> FALSE, partial |-> FALSE]

PdnsConvertInit ==
    /\ RestIdle
    /\ PlanIdle
    /\ AzureIdle
    /\ CoreDNSIdle
    /\ pdCfg \in PdCfgUniverse \cup {PdCfgExcluding}
    /\ pdServer \in PdZonesUniverse
    /\ pdBudget = 0
    /\ pdLast = PdNoCall

\* One call of ConvertEndpointsToZones; ListZones returns the zones of the
\* server or fails.
PdnsConvert ==
    /\ pdLast.op = "none"
    /\ \E eps \in KeyedSeqUpTo(PdEndpointUniverse, MaxPdnsEndpoints),
          changetype \in {"REPLACE", "DELETE"}, listOk \in BOOLEAN :
        LET conv == ConvertEndpointsToZones(pdCfg, eps, changetype, pdServer)
        IN /\ pdLast' = [op |-> "Convert", eps |-> eps, changetype |-> changetype,
                         err |-> ~listOk \/ conv.err,
                         errKind |-> IF ~listOk \/ conv.err THEN "soft" ELSE "nil",
                         zoneList |-> IF listOk THEN conv.zoneList ELSE <<>>,
                         interrupted |-> FALSE, partial |-> FALSE]
           /\ UNCHANGED <<restVars, pdCfg, pdServer, pdBudget, planVars, azVars, cdVars>>

PdnsConvertNext == PdnsConvert

SpecPdnsConvert == PdnsConvertInit /\ [][PdnsConvertNext]_vars

\* The filtered zones whose name is the dot-terminated name dn or a suffix
\* of it that follows a dot.
PdCandidates(dn) ==
    {i \in 1..Len(pdServer) :
        /\ DomainFilterMatchExcluding(pdCfg.domainFilter, pdCfg.domainExclude,
                                      pdServer[i].Name)
        /\ \/ pdServer[i].Name = dn
           \/ /\ Len(dn) > Len(pdServer[i].Name)
              /\ SubSeq(dn, Len(dn) - Len(pdServer[i].Name), Len(dn)) = <<Dot>> \o pdServer[i].Name}

\* Where the zone list of the last conversion holds an rrset of endpoint e.
PdPlaces(e, dn) ==
    {p \in {<<z, r>> : z \in 1..Len(pdLast.zoneList), r \in 1..MaxPdnsEndpoints} :
        /\ p[2] <= Len(pdLast.zoneList[p[1]].Rrsets)
        /\ pdLast.zoneList[p[1]].Rrsets[p[2]].Name = dn
        /\ pdLast.zoneList[p[1]].Rrsets[p[2]].Type_ \in
              {e.RecordType} \cup (IF e.RecordType = "CNAME" THEN {"ALIAS"} ELSE {})}

\* C8: ConvertEndpointsToZones puts every endpoint into the rrsets of at most
\* one zone, the one with the longest name among the filtered zones whose
\* name is the endpoint's dot-terminated name or a suffix of it at a label
\* boundary; a zone whose name is only a plain string suffix of the name
\* never gets the endpoint.
C8_LongestLabelBoundaryZone ==
    (pdLast.op = "Convert" /\ ~pdLast.err) =>
        \A k \in 1..Len(pdLast.eps) :
            LET e == pdLast.eps[k]
                dn == TrimSuffixDot(e.DNSName) \o <<Dot>>
                cands == PdCandidates(dn)
                places == PdPlaces(e, dn)
            IN /\ Cardinality(places) <= 1
               /\ cands = {} => places = {}
               /\ cands # {} =>
                     \E p \in places, c \in cands :
                        /\ pdLast.zoneList[p[1]].Name = pdServer[c].Name
                        /\ \A d \in cands : StrLen(pdServer[d].Name) <= StrLen(pdServer[c].Name)

\* C8 witness: foo.example.com went to the zone foo.example.com. and not to
\* example.com., and fooexample.com went to no zone though example.com. is
\* a plain suffix of it.
C8_Witness ==
    /\ pdLast.op = "Convert"
    /\ ~pdLast.err
    /\ \E k, l \in 1..Len(pdLast.eps) :
          /\ pdLast.eps[k].DNSName = foo_example_com
          /\ pdLast.eps[l].DNSName = fooexample_com
          /\ PdPlaces(pdLast.eps[l], fooexample_com \o <<Dot>>) = {}
    /\ \E z \in 1..Len(pdLast.zoneList) :
          /\ pdLast.zoneList[z].Name = foo_example_com_
          /\ pdLast.zoneList[z].Rrsets[1].Name = foo_example_com_
    /\ \E i, j \in 1..Len(pdServer) :
          pdServer[i].Name = example_com_ /\ pdServer[j].Name = foo_example_com_
    /\ \A z \in 1..Len(pdLast.zoneList) : pdLast.zoneList[z].Name # example_com_

(***************************************************************************)
(* The reconciliation cycle against the PowerDNS provider: Records, Plan,  *)
(* ApplyChanges, again and again, with calls of the client that fail       *)
(***************************************************************************)
PdRrset(name, type, ttl, contents) ==
    [Name |-> name, Type_ |-> type, Ttl |-> ttl,
     Records |-> [i \in 1..Len(contents) |-> [Content |-> contents[i], Disabled |-> FALSE]]]

\* What the server holds when the cycles start.
PdServerUniverse ==
    {<<PdZone(example_com_, <<PdRrset(foo_example_com_, "A", 300, <<IP1>>)>>),
       PdZone(other_org_, <<>>)>>,
     <<PdZone(example_com_, <<PdRrset(foo_example_com_, "A", 600, <<IP2>>),
                              PdRrset(bar_example_com \o <<Dot>>, "A", 300, <<IP1>>)>>),
       PdZone(other_org_, <<PdRrset(foo_other_org \o <<Dot>>, "A", 300, <<IP1>>)>>)>>}

PdDesiredUniverse ==
    {Endpoint(foo_example_com, "A", "", 300, <<IP1>>, NoLabels),
     Endpoint(foo_example_com, "A", "", 0, <<IP2>>, NoLabels),
     Endpoint(bar_example_com, "CNAME", "", 300, <<Host1>>, NoLabels),
     Endpoint(bar_example_com, "CNAME", "", 300, <<Host1, Host2>>, NoLabels),
     Endpoint(foo_other_org, "A", "", 600, <<IP1, IP2>>, NoLabels),
     Endpoint(fooexample_com, "A", "", 300, <<IP1>>, NoLabels)}

PdnsCycleInit ==
    /\ RestIdle
    /\ AzureIdle
    /\ CoreDNSIdle
    /\ phase = "fetch"
    /\ observed = <<>>
    /\ current = <<>>
    /\ desired \in KeyedSeqUpTo(PdDesiredUniverse, MaxPdnsDesired)
    /\ changes = EmptyChanges
    /\ pdCfg \in PdCfgUniverse
    /\ pdServer \in PdServerUniverse
    /\ pdBudget = MaxFailures
    /\ pdLast = PdNoCall

\* The controller fetches the current records: PDNSProvider.Records.  When
\* ListZones or ListZone fails the cycle ends and the next one starts.
PdnsRecords ==
    /\ phase = "fetch"
    /\ \E ok \in IF pdBudget > 0 THEN BOOLEAN ELSE {TRUE} :
        /\ current' = IF ok THEN pdnsRecords(pdCfg, pdServer) ELSE current
        /\ phase' = IF ok THEN "input" ELSE "fetch"
        /\ pdBudget' = IF ok THEN pdBudget ELSE pdBudget - 1
        /\ pdLast' = [pdLast EXCEPT !.op = "Records", !.err = ~ok]
    /\ UNCHANGED <<restVars, observed, desired, changes, pdCfg, pdServer, azVars, cdVars>>

\* The controller applies the Plan: PDNSProvider.ApplyChanges, in which the
\* call of the client numbered failAt fails, if there is one.
PdnsApplyChanges ==
    /\ phase = "planned"
    /\ \E failAt \in IF pdBudget > 0 THEN 0..MaxPdnsFailAt ELSE {0} :
        \E st \in {pdnsApplyChanges(pdCfg, pdServer, changes, failAt)} :
           /\ pdServer' = st.server
           /\ pdBudget' = IF st.err THEN pdBudget - 1 ELSE pdBudget
           /\ pdLast' = [pdLast EXCEPT !.op = "ApplyChanges", !.err = st.err,
                                       !.interrupted = @ \/ st.err,
                                       !.partial = @ \/ (st.err /\ st.patched > 0)]
    /\ phase' = "fetch"
    /\ UNCHANGED <<restVars, observed, current, desired, changes, pdCfg, azVars, cdVars>>

PdnsCycleNext == PdnsRecords \/ RunPlan \/ PdnsApplyChanges

\* The controller runs its cycles for ever, each step of a cycle is taken in
\* the end.
SpecPdnsCycle ==
    /\ PdnsCycleInit
    /\ [][PdnsCycleNext]_vars
    /\ WF_vars(PdnsRecords)
    /\ WF_vars(RunPlan)
    /\ WF_vars(PdnsApplyChanges)

\* The provider's records are the desired state, and Plan has nothing to do.
PdReconciled ==
    LET recs == pdnsRecords(pdCfg, pdServer)
    IN /\ Keys(recs) = Keys(desired)
       /\ \A i \in 1..Len(recs), j \in 1..Len(desired) :
             Key(recs[i]) = Key(desired[j]) =>
                /\ Range(recs[i].Targets) = Range(desired[j].Targets)
                /\ recs[i].RecordTTL = desired[j].RecordTTL
       /\ Plan(recs, desired) = EmptyChanges

\* Every desired endpoint is one the provider can hold as it is: valid for
\* its type, with a TTL of its own, and within a zone that passes the domain
\* filter.
PdReconcilable ==
    \A j \in 1..Len(desired) :
        /\ CheckEndpoint(desired[j])
        /\ desired[j].RecordTTL > 0
        /\ desired[j].RecordTTL <= MaxInt32
        /\ PdCandidates(desired[j].DNSName \o <<Dot>>) # {}

PdChangesUniverse ==
    LET ep(n, t, ttl, tg) == Endpoint(n, t, "", ttl, tg, NoLabels)
    IN {\* a switch from A to CNAME at one name
        [Create |-> <<ep(foo_example_com, "CNAME", 300, <<Host1>>)>>,
         Update |-> <<>>,
         Delete |-> <<ep(foo_example_com, "A", 300, <<IP1>>)>>],
        \* the same switch next to changes of other names and zones
        [Create |-> <<ep(foo_other_org, "TXT", 300, <<<<"tag">>>>),
                      ep(foo_example_com, "CNAME", 0, <<Host2>>)>>,
         Update |-> <<[Old |-> ep(bar_example_com, "A", 300, <<IP1>>),
                       New |-> ep(bar_example_com, "A", 600, <<IP1, IP2>>)]>>,
         Delete |-> <<ep(foo_example_com, "A", 600, <<IP2>>)>>],
        \* a name in no zone among names with a zone
        [Create |-> <<ep(fooexample_com, "A", 300, <<IP1>>),
                      ep(bar_example_com, "A", 300, <<IP2>>)>>,
         Update |-> <<>>,
         Delete |-> <<ep(foo_other_org, "A", 300, <<IP1>>)>>],
        [Create |-> <<ep(foo_example_com, "A", 300, <<IP2>>)>>,
         Update |-> <<[Old |-> ep(fooexample_com, "A", 300, <<IP1>>),
                       New |-> ep(fooexample_com, "A", 300, <<IP2>>)]>>,
         Delete |-> <<ep(fooexample_com, "CNAME", 300, <<Host1>>),
                      ep(bar_example_com, "A", 300, <<IP1>>)>>],
        \* nothing but a name in no zone
        [Create |-> <<ep(fooexample_com, "A", 300, <<IP1>>)>>,
         Update |-> <<>>,
         Delete |-> <<>>],
        [Create |-> <<>>,
         Update |-> <<[Old |-> ep(foo_example_com, "A", 300, <<IP1>>),
                       New |-> ep(foo_example_com, "A", 300, <<IP2>>)]>>,
         Delete |-> <<>>]}

PdNoApply ==
    [op |-> "none", n |-> 0, changes |-> EmptyChanges, failAt |-> 0, log |-> <<>>,
     err |-> FALSE]

PdnsApplyInit ==
    /\ RestIdle
    /\ PlanIdle
    /\ AzureIdle
    /\ CoreDNSIdle
    /\ pdCfg \in PdCfgUniverse
    /\ pdServer \in PdServerUniverse
    /\ pdBudget = 0
    /\ pdLast = PdNoApply

\* PDNSProvider.ApplyChanges, in which the call of the client numbered
\* failAt fails, if there is one.
PdnsApplyOnce ==
    /\ pdCfg # <<>>
    /\ pdLast.n < MaxPdnsApply
    /\ \E ch \in PdChangesUniverse, failAt \in 0..MaxPdnsFailAt :
        \E st \in {pdnsApplyChanges(pdCfg, pdServer, ch, failAt)} :
           /\ pdServer' = st.server
           /\ pdLast' = [op |-> "ApplyChanges", n |-> pdLast.n + 1, changes |-> ch,
                         failAt |-> failAt, log |-> st.log, err |-> st.err]
    /\ UNCHANGED <<restVars, pdCfg, pdBudget, planVars, azVars, cdVars>>

PdnsApplyNext == PdnsApplyOnce

SpecPdnsApply == PdnsApplyInit /\ [][PdnsApplyNext]_vars

\* The PatchZone calls of the last ApplyChanges that carry an rrset of the
\* name with the change type.
PdPatchesOf(name, changetype) ==
    {k \in 1..Len(pdLast.log) :
        \E r \in Range(pdLast.log[k].Rrsets) :
            r.Name = name \o <<Dot>> /\ r.Changetype = changetype}

\* C14: when the Changes hold a Delete and a Create for one DNS name, the
\* PatchZone call with the DELETE rrset of the name is made, and has
\* returned, before any PatchZone call with the REPLACE rrset created for
\* the name.
C14_PdnsDeleteBeforeCreate ==
    pdLast.op = "ApplyChanges" =>
        \A i \in 1..Len(pdLast.changes.Delete), j \in 1..Len(pdLast.changes.Create) :
            pdLast.changes.Delete[i].DNSName = pdLast.changes.Create[j].DNSName =>
                \A c \in PdPatchesOf(pdLast.changes.Create[j].DNSName, "REPLACE") :
                    \E d \in PdPatchesOf(pdLast.changes.Delete[i].DNSName, "DELETE") : d < c

(***************************************************************************)
(* Endpoints in no managed zone: ApplyChanges of the Azure provider and of *)
(* the PowerDNS provider, each in behaviours of its own                    *)
(***************************************************************************)
NoZoneInit == AzureInit \/ PdnsApplyInit

NoZoneAzureApplyChanges == azCfg # <<>> /\ AzureApplyChanges

NoZoneNext == NoZoneAzureApplyChanges \/ PdnsApplyOnce

SpecNoZone == NoZoneInit /\ [][NoZoneNext]_vars

\* C12 for the Azure provider, about the step of an ApplyChanges that got
\* its zone list.
C12_AzureStep ==
    LET ch == azLast'.changes
        zn == ZoneNames(azLast'.zones)
        calls == Range(azLast'.calls)
        hasZone(e) == \E z \in zn : LabelSuffix(e.DNSName, z)
        ready(e) == /\ hasZone(e)
                    /\ DomainFilterMatch(azCfg.domainFilter, e.DNSName)
                    /\ ~azCfg.dryRun
        callFor(e, op) ==
            \E c \in calls : /\ c.op = op
                             /\ c.type = e.RecordType
                             /\ formatAzureDNSName(c.name, c.zone) = e.DNSName
                             /\ LabelSuffix(e.DNSName, c.zone)
    IN /\ \A i \in 1..Len(AllEndpoints(ch)) :
            ~hasZone(AllEndpoints(ch)[i]) =>
                \A c \in calls :
                    formatAzureDNSName(c.name, c.zone) # AllEndpoints(ch)[i].DNSName
       /\ \A i \in 1..Len(ch.Delete) :
            ready(ch.Delete[i]) => callFor(ch.Delete[i], "Delete")
       /\ \A i \in 1..Len(ch.Create \o UpdateNew(ch)) :
            LET e == (ch.Create \o UpdateNew(ch))[i]
            IN (ready(e) /\ e.RecordType \in AzSupportedTypes) => callFor(e, "CreateOrUpdate")
       /\ azLast'.result = "nil"

\* C12 for the PowerDNS provider, about the step of an ApplyChanges.
C12_PdnsStep ==
    LET ch == pdLast'.changes
        rrsets == UNION {Range(pdLast'.log[k].Rrsets) : k \in 1..Len(pdLast'.log)}
        hasZone(e) == PdCandidates(e.DNSName \o <<Dot>>) # {}
        patchFor(e, changetype) ==
            \E k \in 1..Len(pdLast'.log) :
                /\ pdLast'.log[k].ok
                /\ \E j \in PdCandidates(e.DNSName \o <<Dot>>) : pdLast'.log[k].Id = pdServer[j].Id
                /\ \E r \in Range(pdLast'.log[k].Rrsets) :
                      /\ r.Name = e.DNSName \o <<Dot>>
                      /\ r.Type_ = e.RecordType
                      /\ r.Changetype = changetype
    IN /\ \A i \in 1..Len(AllEndpoints(ch)) :
            ~hasZone(AllEndpoints(ch)[i]) =>
                \A r \in rrsets : r.Name # AllEndpoints(ch)[i].DNSName \o <<Dot>>
       /\ pdLast'.failAt = 0 =>
            /\ \A i \in 1..Len(ch.Create \o UpdateNew(ch)) :
                  hasZone((ch.Create \o UpdateNew(ch))[i]) =>
                      patchFor((ch.Create \o UpdateNew(ch))[i], "REPLACE")
            /\ \A i \in 1..Len(ch.Delete) :
                  hasZone(ch.Delete[i]) => patchFor(ch.Delete[i], "DELETE")
            /\ ~pdLast'.err

ingressClassAnnotation == "kubernetes.io/ingress.class"

\* The annotation filters of the model: the text, whether it parses as a
\* label selector, and the keys of its requirements.
AnnotationFilterUniverse ==
    {[text |-> "", parses |-> TRUE, keys |-> {}],
     [text |-> "team=a", parses |-> TRUE, keys |-> {"team"}],
     [text |-> "kubernetes.io/ingress.class=nginx", parses |-> TRUE,
      keys |-> {ingressClassAnnotation}],
     [text |-> "team=a,kubernetes.io/ingress.class in (nginx)", parses |-> TRUE,
      keys |-> {"team", ingressClassAnnotation}],
     [text |-> "team in (", parses |-> FALSE, keys |-> {}]}

\* ingressClassNames: a nil slice, an empty one, one with a name.
IngressClassNamesUniverse ==
    {[isNil |-> TRUE, names |-> <<>>],
     [isNil |-> FALSE, names |-> <<>>],
     [isNil |-> FALSE, names |-> <<"nginx">>]}

IngressConfigUniverse ==
    [annotationFilter : AnnotationFilterUniverse,
     ingressClassNames : IngressClassNamesUniverse,
     templateParses : BOOLEAN,
     cacheSyncs : BOOLEAN]

\* NewIngressSource: the source, <<>> for nil, and the error, "" for nil.
NewIngressSource(config) ==
    LET failed(e) == [source |-> <<>>, err |-> e]
    IN IF ~config.templateParses THEN failed("template")
       ELSE IF /\ ~config.ingressClassNames.isNil
               /\ config.annotationFilter.text # ""
               /\ ~config.annotationFilter.parses
       THEN failed("selector")
       ELSE IF /\ ~config.ingressClassNames.isNil
               /\ config.annotationFilter.text # ""
               /\ ingressClassAnnotation \in config.annotationFilter.keys
       THEN failed("mutually exclusive")
       ELSE IF ~config.cacheSyncs THEN failed("cache sync")
       ELSE [source |-> [annotationFilter |-> config.annotationFilter.text,
                         ingressClassNames |-> config.ingressClassNames],
             err |-> ""]

PDNSConfigUniverse ==
    [APIKey : {"", "secret"}, DryRun : BOOLEAN, DomainFilter : {{}, {example_com}},
     tlsConfigOk : BOOLEAN]

\* NewPDNSProvider without the test of DryRun.
NewPDNSProviderDryRunAllowed(config) ==
    IF config.APIKey = "" THEN [provider |-> <<>>, err |-> "missing API Key"]
    ELSE IF ~config.tlsConfigOk THEN [provider |-> <<>>, err |-> "tls"]
    ELSE [provider |-> [domainFilter |-> config.DomainFilter, domainExclude |-> {}],
          err |-> ""]

\* NewPDNSProvider: the provider, <<>> for nil, and the error, "" for nil.
NewPDNSProvider(config) ==
    IF config.APIKey = "" THEN [provider |-> <<>>, err |-> "missing API Key"]
    ELSE IF config.DryRun THEN [provider |-> <<>>, err |-> "dry-run"]
    ELSE IF ~config.tlsConfigOk THEN [provider |-> <<>>, err |-> "tls"]
    ELSE [provider |-> [domainFilter |-> config.DomainFilter, domainExclude |-> {}],
          err |-> ""]

CtorNone ==
    [ingress |-> [called |-> FALSE, config |-> <<>>, source |-> <<>>, err |-> ""],
     pdns |-> [called |-> FALSE, config |-> <<>>, err |-> ""]]

ConstructInit ==
    /\ PlanIdle
    /\ AzureIdle
    /\ CoreDNSIdle
    /\ BatchIdle
    /\ ReqIdle
    /\ ctor = CtorNone
    /\ pdCfg = <<>>
    /\ pdServer \in PdServerUniverse
    /\ pdBudget = 0
    /\ pdLast = PdNoApply

\* The program builds the ingress source.
ConstructIngressSource ==
    /\ ~ctor.ingress.called
    /\ \E config \in IngressConfigUniverse :
          ctor' = [ctor EXCEPT !.ingress =
                      [called |-> TRUE, config |-> config,
                       source |-> NewIngressSource(config).source,
                       err |-> NewIngressSource(config).err]]
    /\ UNCHANGED <<gBatch, pdReq, planVars, azVars, cdVars, pdVars>>

\* The program builds the PowerDNS provider.
ConstructPDNSProvider ==
    /\ ~ctor.pdns.called
    /\ \E config \in PDNSConfigUniverse :
          /\ ctor' = [ctor EXCEPT !.pdns = [called |-> TRUE, config |-> config,
                                            err |-> NewPDNSProvider(config).err]]
          /\ pdCfg' = NewPDNSProvider(config).provider
    /\ UNCHANGED <<gBatch, pdReq, pdServer, pdBudget, pdLast, planVars, azVars, cdVars>>

\* A reconciliation cycle of the controller, which needs the source and the
\* provider: it ends with ApplyChanges.
ConstructCycle ==
    /\ ctor.ingress.source # <<>>
    /\ PdnsApplyOnce

ConstructNext == ConstructIngressSource \/ ConstructPDNSProvider \/ ConstructCycle

SpecConstruct == ConstructInit /\ [][ConstructNext]_vars

\* C21: configuration errors fail at construction, with an error and no
\* object, before any cycle runs: NewIngressSource for ingress class names
\* next to an annotation filter with a requirement on
\* kubernetes.io/ingress.class, NewPDNSProvider for an empty API key and for
\* DryRun; so no provider configured for dry run ever calls PatchZone.
C21_ConfigErrorsFailAtConstruction ==
    /\ (/\ ctor.ingress.called
        /\ ctor.ingress.config.templateParses
        /\ ctor.ingress.config.ingressClassNames.names # <<>>
        /\ ingressClassAnnotation \in ctor.ingress.config.annotationFilter.keys)
       => /\ ctor.ingress.err # ""
          /\ ctor.ingress.source = <<>>
          /\ pdLast.n = 0
    /\ (/\ ctor.pdns.called
        /\ (ctor.pdns.config.APIKey = "" \/ ctor.pdns.config.DryRun))
       => /\ ctor.pdns.err # ""
          /\ pdCfg = <<>>
          /\ pdLast.n = 0
          /\ pdLast.log = <<>>

\* C21 witness: both constructors have failed, the one for the ingress class
\* given twice and the other for DryRun.
C21_Witness ==
    /\ ctor.ingress.called
    /\ ctor.ingress.err = "mutually exclusive"
    /\ ctor.pdns.called
    /\ ctor.pdns.config.DryRun
    /\ ctor.pdns.config.APIKey # ""
    /\ ctor.pdns.err = "dry-run"

(***************************************************************************)
(* Google provider: batchChange                                            *)
(***************************************************************************)
MaxAdditions == 2   \* additions of a change set
MaxDeletions == 2   \* deletions of a change set
MaxBatchSize == 3   \* the batch sizes go from 1 to this

GcNames == {"host-1.example.org.", "host-11.example.org.", "host-3.example.org."}

\* The place of a name in the order of sort.Strings.
GcNameRank(n) ==
    CASE n = "host-1.example.org." -> 1
      [] n = "host-11.example.org." -> 2
      [] n = "host-3.example.org." -> 3

GcRecordSets == [Name : GcNames, Type : {"A", "TXT"}]

\* The change sets that are split: they hold an addition or a deletion.
GcChangeUniverse ==
    {c \in [Additions : SeqUpTo(GcRecordSets, MaxAdditions),
            Deletions : SeqUpTo(GcRecordSets, MaxDeletions)] :
        Len(c.Additions) + Len(c.Deletions) > 0}

\* The record sets of a name, in their order.
GcOfName(rrs, name) == SelectIdx(rrs, {i \in 1..Len(rrs) : rrs[i].Name = name}, 1)

\* The names of a change set in the order of sort.Strings.
RECURSIVE GcSortNames(_)
GcSortNames(S) ==
    IF S = {} THEN <<>>
    ELSE LET first == CHOOSE n \in S : \A m \in S : GcNameRank(n) <= GcNameRank(m)
         IN <<first>> \o GcSortNames(S \ {first})

GcEmptyChange == [Additions |-> <<>>, Deletions |-> <<>>]

\* batchChange, the loop over the names: acc holds the batches closed so
\* far, the batch being filled and the number of its changes.  overflow
\* tells whether the batch is closed when the next name does not fit.
RECURSIVE batchLoop(_, _, _, _, _, _)
batchLoop(change, batchSize, names, acc, i, overflow) ==
    IF i > Len(names) THEN acc
    ELSE LET additions == GcOfName(change.Additions, names[i])
             deletions == GcOfName(change.Deletions, names[i])
             totalChangesByName == Len(additions) + Len(deletions)
             closed == IF overflow /\ acc.totalChanges + totalChangesByName > batchSize
                       THEN [changes |-> Append(acc.changes, acc.currentChange),
                             currentChange |-> GcEmptyChange, totalChanges |-> 0]
                       ELSE acc
         IN batchLoop(change, batchSize, names,
                IF totalChangesByName > batchSize THEN acc
                ELSE [changes |-> closed.changes,
                      currentChange |->
                          [Additions |-> closed.currentChange.Additions \o additions,
                           Deletions |-> closed.currentChange.Deletions \o deletions],
                      totalChanges |-> closed.totalChanges + totalChangesByName],
                i + 1, overflow)

\* batchChange that never closes a batch before the last name.
batchChangeOneBatch(change, batchSize) ==
    LET names == GcSortNames({change.Additions[i].Name : i \in 1..Len(change.Additions)}
                             \cup {change.Deletions[i].Name : i \in 1..Len(change.Deletions)})
        done == batchLoop(change, batchSize, names,
                          [changes |-> <<>>, currentChange |-> GcEmptyChange,
                           totalChanges |-> 0], 1, FALSE)
    IN IF done.totalChanges > 0 THEN Append(done.changes, done.currentChange)
       ELSE done.changes

\* batchChange: the changes by name, the names sorted, a batch closed when
\* the changes of the next name do not fit, a name with more changes than
\* the batch size left out.
batchChange(change, batchSize) ==
    LET names == GcSortNames({change.Additions[i].Name : i \in 1..Len(change.Additions)}
                             \cup {change.Deletions[i].Name : i \in 1..Len(change.Deletions)})
        done == batchLoop(change, batchSize, names,
                          [changes |-> <<>>, currentChange |-> GcEmptyChange,
                           totalChanges |-> 0], 1, TRUE)
    IN IF done.totalChanges > 0 THEN Append(done.changes, done.currentChange)
       ELSE done.changes

BatchInit ==
    /\ PlanIdle
    /\ AzureIdle
    /\ CoreDNSIdle
    /\ PdnsIdle
    /\ CtorIdle
    /\ ReqIdle
    /\ gBatch \in [change : GcChangeUniverse, batchSize : 1..MaxBatchSize,
                   done : {FALSE}, batches : {<<>>}]

\* The provider splits the change set.
BatchChange ==
    /\ ~gBatch.done
    /\ gBatch' = [gBatch EXCEPT !.done = TRUE,
                                !.batches = batchChange(gBatch.change, gBatch.batchSize)]
    /\ UNCHANGED <<ctor, pdReq, planVars, azVars, cdVars, pdVars>>

BatchNext == BatchChange

SpecBatch == BatchInit /\ [][BatchNext]_vars

\* How often a record set occurs in a list.
GcCount(rrs, rr) == Cardinality({i \in 1..Len(rrs) : rrs[i] = rr})

\* The changes of a name in a change set.
GcChangesOfName(change, name) ==
    Len(GcOfName(change.Additions, name)) + Len(GcOfName(change.Deletions, name))

\* C22: every batch holds at most batchSize additions plus deletions; the
\* batches together hold every addition and deletion of the input as often
\* as the input does, those of a name with more changes than batchSize
\* excepted, which are in no batch; the changes of a name are in one batch;
\* a change set within the limit gives one batch with the additions and
\* deletions of the input.
C22_BatchesSplitChangeSet ==
    gBatch # <<>> /\ gBatch.done =>
        LET change == gBatch.change
            batches == gBatch.batches
            size == gBatch.batchSize
            allAdditions == Flatten([b \in 1..Len(batches) |-> batches[b].Additions])
            allDeletions == Flatten([b \in 1..Len(batches) |-> batches[b].Deletions])
            exceeds(name) == GcChangesOfName(change, name) > size
        IN /\ \A b \in 1..Len(batches) :
                  Len(batches[b].Additions) + Len(batches[b].Deletions) <= size
           /\ \A rr \in GcRecordSets :
                  /\ GcCount(allAdditions, rr) =
                        IF exceeds(rr.Name) THEN 0 ELSE GcCount(change.Additions, rr)
                  /\ GcCount(allDeletions, rr) =
                        IF exceeds(rr.Name) THEN 0 ELSE GcCount(change.Deletions, rr)
           /\ \A name \in GcNames : \A b, c \in 1..Len(batches) :
                  (GcChangesOfName(batches[b], name) > 0
                      /\ GcChangesOfName(batches[c], name) > 0) => b = c
           /\ Len(change.Additions) + Len(change.Deletions) <= size =>
                  /\ Len(batches) = 1
                  /\ \A rr \in GcRecordSets :
                        /\ GcCount(batches[1].Additions, rr) = GcCount(change.Additions, rr)
                        /\ GcCount(batches[1].Deletions, rr) = GcCount(change.Deletions, rr)

\* C22 witness: a change set split into two batches, with a name left out
\* for its two changes.
C22_Witness ==
    /\ gBatch # <<>>
    /\ gBatch.done
    /\ gBatch.batchSize = 1
    /\ Len(gBatch.batches) = 2
    /\ \E name \in GcNames : GcChangesOfName(gBatch.change, name) = 2

(***************************************************************************)
(* PowerDNS provider: AdjustEndpoints, and the Plan on what it returns     *)
(***************************************************************************)
\* AdjustEndpoints that returns all it is given.
AdjustEndpointsKeepAll(endpoints) ==
    [endpoints |-> endpoints, err |-> FALSE, given |-> endpoints]

\* PDNSProvider.AdjustEndpoints: what it returns, whether the error is not
\* nil, and the endpoints it was given as they are after the call.
AdjustEndpoints(endpoints) ==
    [endpoints |-> SelectIdx(endpoints,
                             {i \in 1..Len(endpoints) : CheckEndpoint(endpoints[i])}, 1),
     err |-> FALSE,
     given |-> endpoints]

\* The records the provider holds when the controller plans.
PdAdjustCurrentUniverse ==
    {Endpoint(foo_example_com, "A", "", 300, <<IP1>>, NoLabels),
     Endpoint(bar_example_com, "CNAME", "", 300, <<Host1>>, NoLabels)}

PdNoAdjust == [op |-> "none", before |-> <<>>, given |-> <<>>, endpoints |-> <<>>,
               err |-> FALSE]

PdnsAdjustInit ==
    /\ AzureIdle
    /\ CoreDNSIdle
    /\ RestIdle
    /\ phase = "input"
    /\ observed = <<>>
    /\ current \in KeyedSeqUpTo(PdAdjustCurrentUniverse, MaxPdnsDesired)
    /\ desired \in KeyedSeqUpTo(PdDesiredUniverse, MaxPdnsDesired)
    /\ changes = EmptyChanges
    /\ pdCfg \in PdCfgUniverse
    /\ pdServer = <<>>
    /\ pdBudget = 0
    /\ pdLast = PdNoAdjust

\* The controller hands the desired endpoints to the provider before it
\* plans.
PdnsAdjustEndpoints ==
    /\ phase = "input"
    /\ \E adjusted \in {AdjustEndpoints(desired)} :
          pdLast' = [op |-> "AdjustEndpoints", before |-> desired,
                     given |-> adjusted.given, endpoints |-> adjusted.endpoints,
                     err |-> adjusted.err]
    /\ phase' = "adjusted"
    /\ UNCHANGED <<restVars, observed, current, desired, changes, pdCfg, pdServer, pdBudget,
                   azVars, cdVars>>

\* The controller plans with the endpoints the provider has returned.
RunPlanAdjusted ==
    /\ phase = "adjusted"
    /\ changes' = Plan(current, pdLast.endpoints)
    /\ phase' = "planned"
    /\ UNCHANGED <<restVars, observed, current, desired, azVars, cdVars, pdVars>>

PdnsAdjustNext == PdnsAdjustEndpoints \/ RunPlanAdjusted

SpecPdnsAdjust == PdnsAdjustInit /\ [][PdnsAdjustNext]_vars

\* C23: a desired endpoint with targets that are invalid for its record type
\* is in neither Create nor Update, and the current record of its key is
\* not in Delete, also when AdjustEndpoints has dropped the endpoint before
\* the Plan.
C23_InvalidDroppedNotDeleted ==
    phase = "planned" =>
        \A j \in 1..Len(desired) :
            ~CheckEndpoint(desired[j]) =>
                /\ Key(desired[j]) \notin CreatedKeys \cup UpdatedKeys
                /\ Key(desired[j]) \in Keys(current) => Key(desired[j]) \notin DeletedKeys

\* C24: AdjustEndpoints returns, in the order given, the endpoints for which
\* CheckEndpoint holds and no others, with a nil error, and the endpoints it
\* was given are after the call what they were before.
C24_AdjustReturnsValidInOrder ==
    [][pdLast'.op = "AdjustEndpoints" /\ pdLast.op = "none" =>
          /\ pdLast'.endpoints =
                SelectIdx(desired, {i \in 1..Len(desired) : CheckEndpoint(desired[i])}, 1)
          /\ \A i \in 1..Len(pdLast'.endpoints) : CheckEndpoint(pdLast'.endpoints[i])
          /\ ~pdLast'.err
          /\ pdLast'.given = desired]_vars

\* C24 witness: of two endpoints given the invalid one is gone and the
\* valid one is returned.
C24_Witness ==
    /\ pdLast.op = "AdjustEndpoints"
    /\ Len(pdLast.before) = 2
    /\ Len(pdLast.endpoints) = 1
    /\ ~CheckEndpoint(pdLast.before[1])
    /\ pdLast.endpoints[1] = pdLast.before[2]

(***************************************************************************)
(* PowerDNS API client: the retry loop of ListZones, ListZone and          *)
(* PatchZone, an attempt a step                                            *)
(***************************************************************************)
retryLimit == 3
retryAfterTime == 250   \* milliseconds

MaxRequests == 3        \* invocations of the client in a behaviour

RECURSIVE Pow2(_)
Pow2(i) == IF i = 0 THEN 1 ELSE 2 * Pow2(i - 1)

\* The invocations of the model: the method and the zone it is about.
PdRequestUniverse ==
    {[method |-> "ListZones", zoneID |-> <<>>]}
    \cup [method : {"ListZone", "PatchZone"}, zoneID : {example_com_, other_org_}]

PdNoRequest ==
    [pc |-> "idle", n |-> 0, method |-> "", zoneID |-> <<>>, i |-> 0, outcomes |-> <<>>,
     slept |-> 0, result |-> "none"]

\* The loop with a bound that is one too high.
requestStepOneMore(req, ok) ==
    IF ~(req.i < retryLimit + 1) THEN [req EXCEPT !.pc = "done", !.result = "softerror"]
    ELSE IF ~ok
    THEN [req EXCEPT !.outcomes = Append(@, FALSE),
                     !.slept = @ + retryAfterTime * Pow2(req.i),
                     !.i = @ + 1]
    ELSE [req EXCEPT !.outcomes = Append(@, TRUE), !.pc = "done", !.result = "ok"]

\* for i := 0; i < retryLimit; i++: one evaluation of the loop condition
\* with the body that follows, in which the call of the API succeeds (ok)
\* or fails; outcomes lists the calls of the API made by the invocation.
requestStep(req, ok) ==
    IF ~(req.i < retryLimit) THEN [req EXCEPT !.pc = "done", !.result = "softerror"]
    ELSE IF ~ok
    THEN [req EXCEPT !.outcomes = Append(@, FALSE),
                     !.slept = @ + retryAfterTime * Pow2(req.i),
                     !.i = @ + 1]
    ELSE [req EXCEPT !.outcomes = Append(@, TRUE), !.pc = "done", !.result = "ok"]

PdnsRequestInit ==
    /\ PlanIdle
    /\ AzureIdle
    /\ CoreDNSIdle
    /\ PdnsIdle
    /\ CtorIdle
    /\ BatchIdle
    /\ pdReq = PdNoRequest

\* The provider invokes ListZones, ListZone or PatchZone.
PdnsRequestBegin ==
    /\ pdReq.pc \in {"idle", "done"}
    /\ pdReq.n < MaxRequests
    /\ \E r \in PdRequestUniverse :
          pdReq' = [PdNoRequest EXCEPT !.pc = "loop", !.n = pdReq.n + 1,
                                       !.method = r.method, !.zoneID = r.zoneID]
    /\ UNCHANGED <<ctor, gBatch, planVars, azVars, cdVars, pdVars>>

\* The invocation calls the API.
PdnsRequestAttempt ==
    /\ pdReq.pc = "loop"
    /\ pdReq.i < retryLimit
    /\ \E ok \in BOOLEAN : pdReq' = requestStep(pdReq, ok)
    /\ UNCHANGED <<ctor, gBatch, planVars, azVars, cdVars, pdVars>>

\* The loop is over: the invocation returns the soft error.
PdnsRequestGiveUp ==
    /\ pdReq.pc = "loop"
    /\ ~(pdReq.i < retryLimit)
    /\ pdReq' = requestStep(pdReq, FALSE)
    /\ UNCHANGED <<ctor, gBatch, planVars, azVars, cdVars, pdVars>>

PdnsRequestNext == PdnsRequestBegin \/ PdnsRequestAttempt \/ PdnsRequestGiveUp

\* An invocation goes on until it returns: every call of the API returns.
SpecPdnsRequest ==
    /\ PdnsRequestInit
    /\ [][PdnsRequestNext]_vars
    /\ WF_vars(PdnsRequestAttempt)
    /\ WF_vars(PdnsRequestGiveUp)

\* C25: an invocation of ListZones, ListZone or PatchZone calls the API at
\* most retryLimit times, returns with the first call that succeeds, returns
\* a soft error after retryLimit failed calls, and always returns.
C25_RetriesBounded ==
    /\ [](pdReq.pc # "idle" =>
            /\ Len(pdReq.outcomes) <= retryLimit
            /\ \A k \in 1..Len(pdReq.outcomes) :
                  pdReq.outcomes[k] => (k = Len(pdReq.outcomes) /\ pdReq.pc = "done"
                                          /\ pdReq.result = "ok")
            /\ pdReq.result = "ok" =>
                  (pdReq.outcomes # <<>> /\ pdReq.outcomes[Len(pdReq.outcomes)])
            /\ pdReq.result = "softerror" <=>
                  (pdReq.pc = "done" /\ pdReq.outcomes = [k \in 1..retryLimit |-> FALSE]))
    /\ (pdReq.pc = "loop" ~> pdReq.pc = "done")

\* C25 witness: PatchZone has returned the soft error after three failed
\* calls.
C25_Witness ==
    /\ pdReq.pc = "done"
    /\ pdReq.method = "PatchZone"
    /\ pdReq.result = "softerror"
    /\ Len(pdReq.outcomes) = 3

(***************************************************************************)
(* PowerDNS provider: the TTL of the rrsets and the residual zones         *)
(***************************************************************************)
\* The endpoints of the last conversion that an rrset may stand for.
PdSourcesOf(rr) ==
    {k \in 1..Len(pdLast.eps) :
        /\ EnsureTrailingDot(pdLast.eps[k].DNSName) = rr.Name
        /\ \/ rr.Type_ = pdLast.eps[k].RecordType
           \/ rr.Type_ = "ALIAS" /\ pdLast.eps[k].RecordType = "CNAME"}

PdCovering(dn) == {i \in 1..Len(pdServer) : zoneMatches(dn, pdServer[i].Name)}

\* C27: an endpoint whose most specific covering zone is a residual zone is
\* in no zone of the zone list, a filtered parent zone included.
C27_ResidualZoneEndpointIgnored ==
    pdLast.op = "Convert" =>
        \A k \in 1..Len(pdLast.eps) :
            LET dn == EnsureTrailingDot(pdLast.eps[k].DNSName)
                covering == PdCovering(dn)
                longest == {i \in covering :
                              \A j \in covering :
                                  StrLen(pdServer[j].Name) <= StrLen(pdServer[i].Name)}
            IN (covering # {} /\ longest \cap PdCandidates(dn) = {}) =>
                  \A p \in 1..Len(pdLast.zoneList) :
                      \A r \in 1..Len(pdLast.zoneList[p].Rrsets) :
                          pdLast.zoneList[p].Rrsets[r].Name # dn

(***************************************************************************)
(* CoreDNS provider: the domain filter and the saved keys in ApplyChanges  *)
(***************************************************************************)
\* The endpoints of the Changes of the last ApplyChanges call.
CdEndpointsOf(ch) ==
    Range(ch.Create) \cup Range(ch.Delete)
    \cup {ch.Update[i].New : i \in 1..Len(ch.Update)}
    \cup {ch.Update[i].Old : i \in 1..Len(ch.Update)}

\* C28: ApplyChanges makes no SaveService and no DeleteService call on a key
\* of a DNS name that the domain filter does not match, whether the endpoint
\* of the name is in Create, in Update or in Delete.
C28_NoCallOutsideDomainFilter ==
    cdLast.op = "ApplyChanges" =>
        \A ep \in CdEndpointsOf(cdLast.changes) :
            ~DomainFilterMatch(cdCfg.domainFilter, ep.DNSName) =>
                \A s \in 1..Len(cdLast.calls) :
                    /\ cdLast.calls[s].key # etcdKeyFor(cdCfg, ep.DNSName)
                    /\ ~HasPrefix(cdLast.calls[s].key,
                                  etcdKeyFor(cdCfg, ep.DNSName) \o <<Slash>>)

\* C29: a key that ApplyChanges has saved is not removed by a DeleteService
\* call made later in the same ApplyChanges, which removes every key that
\* starts with the key it is given.
C29_SavedKeyNotDeletedInSameCall ==
    cdLast.op = "ApplyChanges" =>
        \A s \in 1..Len(cdLast.calls) : \A d \in (s + 1)..Len(cdLast.calls) :
            (/\ cdLast.calls[s].op = "SaveService"
             /\ cdLast.calls[d].op = "DeleteService")
            => ~HasPrefix(cdLast.calls[s].key, cdLast.calls[d].key)

(***************************************************************************)
(* PowerDNS provider: a PatchZone call that fails within ApplyChanges      *)
(***************************************************************************)
\* The server after the PatchZone calls of a log that succeeded, in order.
RECURSIVE PdReplay(_, _)
PdReplay(server, log) ==
    IF log = <<>> THEN server
    ELSE PdReplay(IF Head(log).ok THEN PatchZone(server, Head(log).Id, Head(log))
                  ELSE server,
                  Tail(log))

\* Whether a PatchZone call of a log carries the rrset of one of the
\* endpoints, with the change type.
PdCarries(call, endpoints, changetype) ==
    \E r \in Range(call.Rrsets) : \E e \in Range(endpoints) :
        /\ r.Changetype = changetype
        /\ r.Name = EnsureTrailingDot(e.DNSName)
        /\ r.Type_ \in {e.RecordType} \cup (IF e.RecordType = "CNAME" THEN {"ALIAS"} ELSE {})

\* The PatchZone call of the last ApplyChanges that failed, if one did.
PdFailed == {k \in 1..Len(pdLast.log) : ~pdLast.log[k].ok}

\* C30: when a PatchZone call of ApplyChanges fails, ApplyChanges returns
\* the error and makes no PatchZone call after it; the zones patched before
\* it keep their changes; no DELETE is sent after a failure of a Create or
\* of an Update, and no Update after a failure of a Create.
C30_PatchZoneFailureEndsApply ==
    [][pdLast'.op = "ApplyChanges" /\ pdLast'.n # pdLast.n =>
         LET log == pdLast'.log
             ch == pdLast'.changes
             failed == {k \in 1..Len(log) : ~log[k].ok}
         IN /\ pdServer' = PdReplay(pdServer, log)
            /\ \A k \in failed :
                  /\ pdLast'.err
                  /\ k = Len(log)
                  /\ \A j \in 1..(k - 1) : log[j].ok
                  /\ (\E r \in Range(log[k].Rrsets) : r.Changetype = "REPLACE") =>
                        \A j \in 1..Len(log) : \A r \in Range(log[j].Rrsets) :
                            r.Changetype # "DELETE"
                  /\ PdCarries(log[k], ch.Create, "REPLACE") =>
                        \A j \in 1..Len(log) :
                            PdCarries(log[j], UpdateNew(ch), "REPLACE") =>
                                PdCarries(log[j], ch.Create, "REPLACE")]_vars

\* C30 witness: the second PatchZone call of the Create step has failed
\* after the first one has changed its zone, and the Changes hold an Update
\* and a Delete as well.
C30_Witness ==
    /\ pdLast.op = "ApplyChanges"
    /\ pdLast.err
    /\ Len(pdLast.log) = 2
    /\ pdLast.log[1].ok
    /\ PdFailed = {2}
    /\ PdCarries(pdLast.log[2], pdLast.changes.Create, "REPLACE")
    /\ pdLast.changes.Update # <<>>
    /\ pdLast.changes.Delete # <<>>
    /\ \E i \in 1..Len(pdServer) :
          pdServer[i].Id = pdLast.log[1].Id /\ pdServer[i].Rrsets # <<>>

====
